---- MODULE Spec2Model ----
(***************************************************************************)
(* Speedarr: the polling / decision / reservation / actuation loop.        *)
(*                                                                         *)
(* Bandwidths are exact rationals.  A bandwidth held in a variable or      *)
(* passed between operators is an integer number of 1/10000 Mbps (so that  *)
(* a percentage of a percentage of a whole-Mbps value is still exact); an  *)
(* allocation before rounding is a fraction [n, d] of such units; a limit  *)
(* after Python's round(x, 2) is an integer number of 1/100 Mbps.          *)
(* Time is counted in polling intervals.                                   *)
(***************************************************************************)
EXTENDS Integers, Sequences, FiniteSets, TLC

Mbps(x) == x * 10000

\* Python's None, and a value where None may stand
None == [none |-> TRUE]
Some(v) == [value |-> v]

Max(a, b) == IF a >= b THEN a ELSE b
Min(a, b) == IF a <= b THEN a ELSE b

\* dict.get(key, default)
Get(d, key, default) == IF key \in DOMAIN d THEN d[key] ELSE default

\* sum(f[x] for x in S)
RECURSIVE SumOver(_, _)
SumOver(f, S) ==
    IF S = {} THEN 0
    ELSE LET x == CHOOSE y \in S : TRUE IN f[x] + SumOver(f, S \ {x})

\* sum of a list of numbers
RECURSIVE SumSeq(_)
SumSeq(s) == IF s = <<>> THEN 0 ELSE Head(s) + SumSeq(Tail(s))

\* A fraction n/d of 1/10000 Mbps, d > 0.
Frac(n, d) == [n |-> n, d |-> d]

\* Python round(x, 2) of the value n/d (in 1/10000 Mbps): the nearest number
\* of 1/100 Mbps, ties to even.
Round2(fr) ==
    LET den == fr.d * 100
        q == fr.n \div den
        r == fr.n % den
    IN IF 2 * r < den THEN q
       ELSE IF 2 * r > den THEN q + 1
       ELSE IF q % 2 = 0 THEN q ELSE q + 1

(***************************************************************************)
(* Bounds of the model.                                                    *)
(***************************************************************************)
\* Reservations that may be live at once before further stream ends are not explored.
MaxReservations == 3
\* Polling intervals the clock runs for.
MaxTime == 3
\* Consecutive failed stream polls followed in the stream loop's specification.
MaxOutage == 1
\* Polling intervals the clock runs for in the specification of both loops.
TickHorizon == 1
\* set_speed_limits calls on one client followed in the actuation specification.
MaxCalls == 3

\* Polling intervals followed while temporary limits come and go
MaxOverrideTime == 2

\* Consecutive failed stream polls followed in a long outage
MaxFailures == 8

(***************************************************************************)
(* Program constants.                                                      *)
(***************************************************************************)
INACTIVE_BUFFER_INTERVALS == 6
plex_max_failures == 6

(***************************************************************************)
(* Streams, as PlexClient._normalize_stream emits them.                    *)
(***************************************************************************)
Stream(sid, uid, pl, mt, br, q, lan) ==
    [session_id |-> sid, user_id |-> uid, player |-> pl, media_type |-> mt,
     stream_bitrate_mbps |-> br, quality_profile |-> q, is_lan |-> lan]

\* s1 and s2: the same viewer twice on the same player; s3: another user on that
\* player, bitrate not reported; s4: the first user on another player, on the LAN.
Sessions ==
    { Stream("s1", "alice", "roku", "episode", Mbps(3), "1080", FALSE),
      Stream("s2", "alice", "roku", "episode", Mbps(3), "1080", FALSE),
      Stream("s3", "bob", "roku", "movie", 0, "720", FALSE),
      Stream("s4", "alice", "tv", "clip", Mbps(2), "sd", TRUE) }

Snapshots == SUBSET Sessions

SessionIds(streams) == { s.session_id : s \in streams }

calculate_stream_bandwidth(stream, overhead_percent) ==
    LET ov == Max(0, Min(300, overhead_percent))
        bitrate == stream.stream_bitrate_mbps
        quality == stream.quality_profile
        base_bandwidth ==
            IF bitrate > 0 THEN bitrate
            ELSE IF quality \in {"4k", "2160"} THEN Mbps(40)
            ELSE IF quality \in {"1080", "hd"} THEN Mbps(12)
            ELSE IF quality = "720" THEN Mbps(6)
            ELSE Mbps(4)
        result == (base_bandwidth * (100 + ov)) \div 100
    IN Max(0, result)

filter_streams_for_bandwidth(streams, include_lan_streams) ==
    IF include_lan_streams THEN streams
    ELSE { s \in streams : ~s.is_lan }

(***************************************************************************)
(* Configuration (SpeedarrConfig) and download clients.                    *)
(***************************************************************************)
ClientIds == <<"qbittorrent_1", "transmission_1", "sabnzbd_1">>

\* get_client_type: 'type_uniqueId' -> 'type'
get_client_type(client_id) ==
    CASE client_id = "qbittorrent_1" -> "qbittorrent"
      [] client_id = "transmission_1" -> "transmission"
      [] client_id = "sabnzbd_1" -> "sabnzbd"
      [] OTHER -> client_id

\* DownloadClientConfig.supports_upload (torrents do, usenet doesn't)
supports_upload(client_id) == get_client_type(client_id) \in {"qbittorrent", "transmission"}

\* An empty dict
EmptyDict == [k \in {} |-> 0]

\* "HH:MM" as minutes after midnight
HHMM(h, m) == h * 60 + m

TimeBasedScheduleConfig(enabled, total_limit, client_percents) ==
    [enabled |-> enabled, start_time |-> HHMM(22, 0), end_time |-> HHMM(6, 0),
     total_limit |-> total_limit, client_percents |-> client_percents]

NoSchedule == TimeBasedScheduleConfig(FALSE, 0, EmptyDict)

\* An enabled schedule whose window lies within one day, 09:00-17:00
DaytimeScheduleConfig(total_limit, client_percents) ==
    [enabled |-> TRUE, start_time |-> HHMM(9, 0), end_time |-> HHMM(17, 0),
     total_limit |-> total_limit, client_percents |-> client_percents]

SpeedarrConfig(clients, dl_percents, ul_percents, safety_net, overhead, reserve, include_lan, dl_sched, ul_sched, episode_end, movie_end) ==
    [download_clients |-> clients,
     plex |-> [include_lan_streams |-> include_lan],
     snmp |-> [enabled |-> FALSE],
     bandwidth |->
        [download |-> [total_limit |-> Mbps(20), client_percents |-> dl_percents,
                       inactive_safety_net_percent |-> safety_net,
                       scheduled |-> dl_sched],
         upload |-> [total_limit |-> Mbps(10), upload_client_percents |-> ul_percents,
                     scheduled |-> ul_sched],
         streams |-> [overhead_percent |-> overhead,
                      download_reserve_percent |-> reserve]],
     restoration |-> [delays |-> [episode_end |-> episode_end, movie_end |-> movie_end]]]

\* The defaults of config.py, no per-type percents.
ConfigDefault ==
    SpeedarrConfig(ClientIds, EmptyDict, EmptyDict, 5, 100, 5,
                   FALSE, NoSchedule, NoSchedule, 1, 2)

\* Three clients, per-type percents, LAN streams counted, a download schedule.
ConfigWeighted ==
    SpeedarrConfig(ClientIds,
                   [qbittorrent |-> 60, sabnzbd |-> 40],
                   [qbittorrent |-> 60, transmission |-> 40], 5, 20, 0,
                   TRUE,
                   TimeBasedScheduleConfig(TRUE, Mbps(10), [qbittorrent |-> 3, transmission |-> 1, sabnzbd |-> 0]),
                   TimeBasedScheduleConfig(TRUE, Mbps(4), EmptyDict), 1, 2)

\* Two clients, a wide safety net, no hold after an episode.
ConfigWideNet ==
    SpeedarrConfig(<<"qbittorrent_1", "sabnzbd_1">>, EmptyDict, EmptyDict, 60, 100, 0,
                   FALSE, NoSchedule, NoSchedule, 0, 2)

ConfigSpace == {ConfigDefault, ConfigWeighted, ConfigWideNet}

\* Two clients, daytime schedules: an alternate download total, and an upload
\* schedule that names percents but no alternate total.
ConfigDaytime ==
    SpeedarrConfig(<<"qbittorrent_1", "sabnzbd_1">>, EmptyDict, EmptyDict, 5, 100, 0,
                   FALSE, DaytimeScheduleConfig(Mbps(8), EmptyDict),
                   DaytimeScheduleConfig(0, [qbittorrent |-> 100]), 1, 2)

AllocConfigSpace == ConfigSpace \cup {ConfigDaytime}

(***************************************************************************)
(* decision_engine.py                                                      *)
(***************************************************************************)
\* A variant of is_within_schedule that knows windows within one day only.
is_within_schedule_same_day(schedule, now_time) ==
    schedule.enabled /\ schedule.start_time <= now_time /\ now_time <= schedule.end_time

is_within_schedule(schedule, now_time) ==
    IF ~schedule.enabled THEN FALSE
    ELSE IF schedule.start_time <= schedule.end_time
         THEN schedule.start_time <= now_time /\ now_time <= schedule.end_time
         ELSE now_time >= schedule.start_time \/ now_time <= schedule.end_time

\* calculate_throttle, lines 90-105: temporary limit, then schedule, then config
total_limit(direction, temp_limit, in_schedule) ==
    IF temp_limit # None THEN temp_limit.value
    ELSE IF in_schedule /\ direction.scheduled.total_limit > 0
         THEN direction.scheduled.total_limit
    ELSE direction.total_limit

\* calculate_throttle, lines 107-130
total_stream_bandwidth(config, active_streams) ==
    IF active_streams = {} THEN 0
    ELSE LET bandwidth_streams ==
                 filter_streams_for_bandwidth(active_streams, config.plex.include_lan_streams)
             cost == [s \in bandwidth_streams |->
                        calculate_stream_bandwidth(s, config.bandwidth.streams.overhead_percent)]
         IN SumOver(cost, bandwidth_streams)

\* SNMPMonitor.get_bandwidth, lines 404-437: the reading it returns for the
\* rates of the interface, rounded to 1/100 Mbps
get_bandwidth(download_mbps, upload_mbps) ==
    [download |-> Round2(Frac(download_mbps, 1)) * 100,
     upload |-> Round2(Frac(upload_mbps, 1)) * 100]

_apply_snmp_download_constraint(available_download, snmp_data) ==
    LET current_download == Get(snmp_data, "download_speed", 0)
    IN Max(0, available_download - current_download)

\* calculate_throttle, lines 136-157
available_download(config, download_total_limit, stream_bandwidth, reserved_download_bandwidth_mbps, snmp_data) ==
    LET download_reserve_percent == config.bandwidth.streams.download_reserve_percent
        active_download_reserve ==
            IF download_reserve_percent > 0
            THEN (stream_bandwidth * download_reserve_percent) \div 100
            ELSE 0
        total_download_reserve == active_download_reserve + reserved_download_bandwidth_mbps
        available == Max(0, download_total_limit - total_download_reserve)
        constrained == IF snmp_data # None
                       THEN _apply_snmp_download_constraint(available, snmp_data)
                       ELSE available
    IN Max(0, constrained)

upload_clients(download_stats) ==
    { c \in DOMAIN download_stats : Get(download_stats[c], "supports_upload", FALSE) }

plex_exceeds_limit(stream_bandwidth, upload_total_limit) ==
    stream_bandwidth > upload_total_limit

\* A variant of available_upload that forgets the reservations.
available_upload_unreserved(download_stats, upload_total_limit, stream_bandwidth, reserved_bandwidth_mbps) ==
    IF stream_bandwidth > upload_total_limit
       /\ { c \in DOMAIN download_stats : Get(download_stats[c], "supports_upload", FALSE) } # {}
    THEN (upload_total_limit
            * Cardinality({ c \in DOMAIN download_stats :
                              Get(download_stats[c], "supports_upload", FALSE) })) \div 100
    ELSE Max(0, upload_total_limit - stream_bandwidth)

\* calculate_throttle, lines 159-176
available_upload(download_stats, upload_total_limit, stream_bandwidth, reserved_bandwidth_mbps) ==
    LET upload_before_reservation == upload_total_limit - stream_bandwidth
        normal == Max(0, upload_before_reservation - reserved_bandwidth_mbps)
    IN IF plex_exceeds_limit(stream_bandwidth, upload_total_limit)
          /\ upload_clients(download_stats) # {}
       THEN (upload_total_limit * Cardinality(upload_clients(download_stats))) \div 100
       ELSE normal

\* The inactive-streak update of one client (lines 197-208 and 450-463):
\* reset above the threshold, one more below it.  available / n * 0.10 is the
\* threshold.  The streak is only ever compared with the buffer, so the model
\* stops counting there.
next_inactive_counter(counter, name, speed, available, n) ==
    IF speed * 10 * n > available THEN 0
    ELSE Min(Get(counter, name, 0) + 1, INACTIVE_BUFFER_INTERVALS)

\* A variant of is_active that keeps a client active through the tick on
\* which its streak reaches the buffer.
is_active_through_buffer(counter_after, name) ==
    counter_after[name] <= INACTIVE_BUFFER_INTERVALS

\* A variant of is_active with a buffer of two polls instead of
\* INACTIVE_BUFFER_INTERVALS.
is_active_short_buffer(counter_after, name) == counter_after[name] < 2

is_active(counter_after, name) == counter_after[name] < INACTIVE_BUFFER_INTERVALS

\* calculate_throttle, lines 185-212: the counters after this poll
inactive_counter_after(counter, download_stats, available) ==
    LET all_clients == DOMAIN download_stats
    IN [name \in all_clients |->
          next_inactive_counter(counter, name, Get(download_stats[name], "download_speed", 0),
                                available, Cardinality(all_clients))]

active_downloading(counter_after) ==
    { name \in DOMAIN counter_after : is_active(counter_after, name) }

\* A variant of normalized_active that always splits equally.
normalized_active_equal(percents, active, c) ==
    Frac(1, Cardinality(active))

\* The normalized share of one active client (lines 359-374 and 523-534), as a
\* fraction [n, d].
normalized_active(percents, active, c) ==
    LET all_configured == \A a \in active : get_client_type(a) \in DOMAIN percents
        raw_active == [a \in active |-> percents[get_client_type(a)]]
        total_raw == SumOver(raw_active, active)
    IN IF all_configured /\ total_raw # 0
       THEN IF total_raw > 0 THEN Frac(raw_active[c], total_raw)
            ELSE Frac(-raw_active[c], -total_raw)
       ELSE Frac(1, Cardinality(active))

\* A variant of allocation without the safety net: an inactive client next to
\* an active one gets nothing.
allocation_without_safety_net(clients, active, available, safety_net, percents, c) ==
    IF Cardinality(active) = 0 THEN Frac(available, Cardinality(clients))
    ELSE IF c \notin active THEN Frac(0, 1)
    ELSE LET w == normalized_active(percents, active, c)
         IN Frac(available * w.n, w.d)

\* A variant of allocation in which a single active client is given all there
\* is, on top of the safety nets of the others.
allocation_whole_to_active(clients, active, available, safety_net, percents, c) ==
    IF Cardinality(active) = 0 THEN Frac(available, Cardinality(clients))
    ELSE IF c \notin active THEN Frac(available * safety_net, 100)
    ELSE Frac(available, Cardinality(active))

\* The three allocation modes shared by _allocate_download_bandwidth (lines
\* 318-384) and _calculate_upload_limits (lines 483-544): what client c of
\* `clients` gets out of `available`.
allocation(clients, active, available, safety_net, percents, c) ==
    LET inactive_clients == clients \ active
        active_pool == 100 - safety_net * Cardinality(inactive_clients)
    IN IF Cardinality(active) = 0
       THEN Frac(available, Cardinality(clients))
       ELSE IF c \notin active
       THEN Frac(available * safety_net, 100)
       ELSE IF Cardinality(active) = 1
       THEN Frac(available * active_pool, 100)
       ELSE LET w == normalized_active(percents, active, c)
            IN Frac(available * active_pool * w.n, 100 * w.d)

_allocate_download_bandwidth(config, all_clients, available, active, use_scheduled) ==
    LET download == config.bandwidth.download
        client_percents ==
            IF use_scheduled /\ DOMAIN download.scheduled.client_percents # {}
            THEN download.scheduled.client_percents
            ELSE download.client_percents
    IN [c \in all_clients |->
          allocation(all_clients, active, available,
                     download.inactive_safety_net_percent, client_percents, c)]

\* _calculate_upload_limits, lines 442-467: the upload counters after this poll
upload_inactive_counter_after(counter, download_stats, available) ==
    LET ups == upload_clients(download_stats)
    IN [name \in DOMAIN counter \cup ups |->
          IF name \in ups
          THEN next_inactive_counter(counter, name,
                                     Get(download_stats[name], "upload_speed", 0),
                                     available, Cardinality(ups))
          ELSE counter[name]]

\* A variant of _calculate_upload_limits that hands a client without upload
\* the standby share.
_calculate_upload_limits_for_all(config, download_stats, available, use_scheduled, counter_after) ==
    LET ups == upload_clients(download_stats)
        active_uploading == { c \in ups : is_active(counter_after, c) }
    IN [c \in DOMAIN download_stats |->
          IF c \notin ups THEN Frac(available, Cardinality(DOMAIN download_stats))
          ELSE allocation(ups, active_uploading, available,
                          config.bandwidth.download.inactive_safety_net_percent,
                          config.bandwidth.upload.upload_client_percents, c)]

_calculate_upload_limits(config, download_stats, available, use_scheduled, counter_after) ==
    LET ups == upload_clients(download_stats)
        upload == config.bandwidth.upload
        upload_percents ==
            IF use_scheduled /\ DOMAIN upload.scheduled.client_percents # {}
            THEN upload.scheduled.client_percents
            ELSE upload.upload_client_percents
        active_uploading == { c \in ups : is_active(counter_after, c) }
    IN [c \in DOMAIN download_stats |->
          IF c \notin ups THEN Frac(0, 1)
          ELSE allocation(ups, active_uploading, available,
                          config.bandwidth.download.inactive_safety_net_percent,
                          upload_percents, c)]

\* calculate_throttle: the decisions and the engine's counters after the call.
\* now_time is datetime.now(timezone.utc).time().
calculate_throttle(config, counter, upload_counter, active_streams, download_stats, snmp_data, reserved_bandwidth_mbps, temp_download_limit, temp_upload_limit, reserved_download_bandwidth_mbps, now_time) ==
    LET download_in_schedule == is_within_schedule(config.bandwidth.download.scheduled, now_time)
        upload_in_schedule == is_within_schedule(config.bandwidth.upload.scheduled, now_time)
        download_total_limit ==
            total_limit(config.bandwidth.download, temp_download_limit, download_in_schedule)
        upload_total_limit ==
            total_limit(config.bandwidth.upload, temp_upload_limit, upload_in_schedule)
        stream_bandwidth == total_stream_bandwidth(config, active_streams)
        avail_down == available_download(config, download_total_limit, stream_bandwidth,
                                         reserved_download_bandwidth_mbps, snmp_data)
        avail_up == available_upload(download_stats, upload_total_limit, stream_bandwidth,
                                     reserved_bandwidth_mbps)
        all_clients == DOMAIN download_stats
        counter_after == inactive_counter_after(counter, download_stats, avail_down)
        download_allocations ==
            _allocate_download_bandwidth(config, all_clients, avail_down,
                                         active_downloading(counter_after), download_in_schedule)
        upload_counter_after == upload_inactive_counter_after(upload_counter, download_stats, avail_up)
        upload_allocations ==
            _calculate_upload_limits(config, download_stats, avail_up, upload_in_schedule,
                                     upload_counter_after)
    IN IF all_clients = {}
       THEN [decisions |-> EmptyDict, inactive_counter |-> counter,
             upload_inactive_counter |-> upload_counter,
             available_download |-> avail_down, available_upload |-> avail_up,
             download_total_limit |-> download_total_limit,
             upload_total_limit |-> upload_total_limit,
             total_stream_bandwidth |-> stream_bandwidth]
       ELSE [decisions |->
                [c \in all_clients |->
                   [action |-> "throttle",
                    download_limit |-> Round2(download_allocations[c]),
                    upload_limit |-> Round2(upload_allocations[c])]],
             inactive_counter |-> [c \in DOMAIN counter \cup all_clients |->
                                     IF c \in all_clients THEN counter_after[c] ELSE counter[c]],
             upload_inactive_counter |-> upload_counter_after,
             available_download |-> avail_down, available_upload |-> avail_up,
             download_total_limit |-> download_total_limit,
             upload_total_limit |-> upload_total_limit,
             total_stream_bandwidth |-> stream_bandwidth]

\* A variant of calculate_restoration_delay that knows the episode delay only.
calculate_restoration_delay_episode(config, stream) ==
    config.restoration.delays.episode_end

calculate_restoration_delay(config, stream) ==
    LET delays == config.restoration.delays
    IN IF stream.media_type = "episode" THEN delays.episode_end
       ELSE IF stream.media_type = "movie" THEN delays.movie_end
       ELSE delays.episode_end

(***************************************************************************)
(* polling_monitor.py: the reservation table.  `tbl.reservations` is the   *)
(* list self._reservations; `tbl.tasks` are the sleeping cleanup tasks     *)
(* (reservation['task']), each knowing the id it was created for and the   *)
(* time its sleep ends.                                                    *)
(*                                                                         *)
(* A reservation id is f"{user_id}_{player}_{timestamp}".  The wall clock  *)
(* is read to the microsecond and several awaits lie between two           *)
(* insertions, so no two ids are equal; ids are only ever compared for     *)
(* equality, so the timestamp is modelled by the least stamp that no live  *)
(* reservation or task of the pair carries.                                *)
(***************************************************************************)
Table(reservations, tasks) == [reservations |-> reservations, tasks |-> tasks]

EmptyTable == Table(<<>>, {})

Range(s) == { s[i] : i \in DOMAIN s }

Ids(tbl) == { r.id : r \in Range(tbl.reservations) }

\* Python truthiness of a string
Truthy(x) == x # ""

timestamp(tbl, user_id, player) ==
    LET used == { id[3] : id \in { i \in Ids(tbl) \cup { t.id : t \in tbl.tasks } :
                                     i[1] = user_id /\ i[2] = player } }
    IN CHOOSE n \in 1..(Cardinality(used) + 1) :
          n \notin used /\ \A m \in 1..(n - 1) : m \in used

schedule_restoration(tbl, time, delay_seconds, bandwidth_to_restore_mbps, user_id, player) ==
    IF delay_seconds <= 0 THEN tbl
    ELSE LET reservation_id == <<user_id, player, timestamp(tbl, user_id, player)>>
             reservation == [id |-> reservation_id,
                             bandwidth_mbps |-> bandwidth_to_restore_mbps,
                             user_id |-> user_id,
                             player |-> player,
                             duration_seconds |-> delay_seconds,
                             expires_at |-> time + delay_seconds]
             task == [id |-> reservation_id, wake_at |-> time + delay_seconds]
         IN Table(Append(tbl.reservations, reservation), tbl.tasks \cup {task})

get_total_reserved_bandwidth(tbl) ==
    SumSeq([i \in DOMAIN tbl.reservations |-> tbl.reservations[i].bandwidth_mbps])

\* A variant of same_user_and_player for which either match is enough.
same_user_or_player(user_id, player, reservation) ==
    \/ Truthy(user_id) /\ user_id = reservation.user_id
    \/ Truthy(player) /\ player = reservation.player

\* same_user and same_player of cancel_restoration and should_cancel_reservation
same_user_and_player(user_id, player, reservation) ==
    LET same_user == IF Truthy(user_id) /\ Truthy(reservation.user_id)
                     THEN user_id = reservation.user_id ELSE FALSE
        same_player == IF Truthy(player) /\ Truthy(reservation.player)
                       THEN player = reservation.player ELSE FALSE
    IN same_user /\ same_player

\* A variant of cancel_restoration that stops at the first match.
cancel_restoration_first(tbl, user_id, player) ==
    LET hits == { i \in DOMAIN tbl.reservations :
                    /\ user_id = tbl.reservations[i].user_id
                    /\ player = tbl.reservations[i].player }
    IN IF hits = {} THEN tbl
       ELSE LET idx == CHOOSE i \in hits : \A j \in hits : i <= j
            IN Table([i \in 1..(Len(tbl.reservations) - 1) |->
                        IF i < idx THEN tbl.reservations[i] ELSE tbl.reservations[i + 1]],
                     { t \in tbl.tasks : t.id # tbl.reservations[idx].id })

cancel_restoration(tbl, user_id, player) ==
    LET keep(r) == ~same_user_and_player(user_id, player, r)
        cancelled == { r.id : r \in { x \in Range(tbl.reservations) : ~keep(x) } }
    IN Table(SelectSeq(tbl.reservations, keep),
             { t \in tbl.tasks : t.id \notin cancelled })

\* self._reservations.pop(idx) at the first idx whose id is reservation_id
PopFirst(reservations, reservation_id) ==
    LET hits == { i \in DOMAIN reservations : reservations[i].id = reservation_id }
    IN IF hits = {} THEN reservations
       ELSE LET idx == CHOOSE i \in hits : \A j \in hits : i <= j
            IN [i \in 1..(Len(reservations) - 1) |->
                  IF i < idx THEN reservations[i] ELSE reservations[i + 1]]

clear_reservation_by_id(tbl, reservation_id) ==
    IF reservation_id \in Ids(tbl)
    THEN Table(PopFirst(tbl.reservations, reservation_id),
               { t \in tbl.tasks : t.id # reservation_id })
    ELSE tbl

\* A variant of _clear_specific_reservation that drops the oldest reservation.
_clear_oldest_reservation(tbl, task) ==
    Table(IF tbl.reservations = <<>> THEN <<>> ELSE Tail(tbl.reservations),
          tbl.tasks \ {task})

\* The body of the cleanup task after its sleep: the task ends, and the
\* reservation it was created for, if still listed, goes.
_clear_specific_reservation(tbl, task) ==
    Table(PopFirst(tbl.reservations, task.id), tbl.tasks \ {task})

(***************************************************************************)
(* polling_monitor.py: the stream tick.                                    *)
(***************************************************************************)
Event(type, subject) == [type |-> type, subject |-> subject]

\* A variant of _handle_stopped_stream that holds bandwidth for LAN streams too.
_handle_stopped_stream_lan(config, tbl, time, stream) ==
    [tbl |-> schedule_restoration(
                 tbl, time,
                 IF stream.media_type = "movie" THEN config.restoration.delays.movie_end
                 ELSE config.restoration.delays.episode_end,
                 calculate_stream_bandwidth(stream, config.bandwidth.streams.overhead_percent),
                 stream.user_id, stream.player),
     events |-> {Event("stream_ended", stream.session_id)}]

\* What _handle_stopped_stream does to the table, and the event it sends.
_handle_stopped_stream(config, tbl, time, stream) ==
    IF ~config.plex.include_lan_streams /\ stream.is_lan
    THEN [tbl |-> tbl, events |-> {Event("stream_ended", stream.session_id)}]
    ELSE LET delay == calculate_restoration_delay(config, stream)
             freed_bandwidth ==
                 calculate_stream_bandwidth(stream, config.bandwidth.streams.overhead_percent)
         IN [tbl |-> schedule_restoration(tbl, time, delay, freed_bandwidth,
                                          stream.user_id, stream.player),
             events |-> {Event("stream_ended", stream.session_id)}]

\* for session_id in stopped_session_ids: ... in the order the set iterates
RECURSIVE handle_stopped(_, _, _, _)
handle_stopped(config, tbl, time, order) ==
    IF order = <<>> THEN [tbl |-> tbl, events |-> {}]
    ELSE LET first == _handle_stopped_stream(config, tbl, time, Head(order))
             rest == handle_stopped(config, first.tbl, time, Tail(order))
         IN [tbl |-> rest.tbl, events |-> first.events \cup rest.events]

\* for session_id in started_session_ids: cancel_restoration(...) and notify
RECURSIVE handle_started(_, _)
handle_started(tbl, order) ==
    IF order = <<>> THEN [tbl |-> tbl, events |-> {}]
    ELSE LET new_stream == Head(order)
             first == IF Truthy(new_stream.user_id) /\ Truthy(new_stream.player)
                      THEN cancel_restoration(tbl, new_stream.user_id, new_stream.player)
                      ELSE tbl
             rest == handle_started(first, Tail(order))
         IN [tbl |-> rest.tbl,
             events |-> {Event("stream_started", new_stream.session_id)} \cup rest.events]

\* The orders in which a Python set of these streams can iterate.
Orders(streams) ==
    { o \in [1..Cardinality(streams) -> streams] :
        \A i, j \in DOMAIN o : i # j => o[i] # o[j] }

stopped_streams(old_streams, new_streams) ==
    { s \in old_streams : s.session_id \in SessionIds(old_streams) \ SessionIds(new_streams) }

started_streams(old_streams, new_streams) ==
    { s \in new_streams : s.session_id \in SessionIds(new_streams) \ SessionIds(old_streams) }

(***************************************************************************)
(* controller_manager.py and the client adapters.                          *)
(***************************************************************************)
\* What a poll finds a client doing.
Statuses == {"busy", "idle", "error"}

\* BaseDownloadClient.get_stats for a client found in `status`: the keys the
\* tick reads.  A failed call returns {"active": False, "error": str(e)}.  A
\* "slow" client moves 1 Mbps each way.
get_stats(client_id, status) ==
    IF status = "error" THEN [active |-> FALSE, error |-> "error"]
    ELSE IF status = "busy"
    THEN [active |-> TRUE, download_speed |-> Mbps(8),
          upload_speed |-> IF supports_upload(client_id) THEN Mbps(2) ELSE 0]
    ELSE IF status = "slow"
    THEN [active |-> TRUE, download_speed |-> Mbps(1),
          upload_speed |-> IF supports_upload(client_id) THEN Mbps(1) ELSE 0]
    ELSE [active |-> FALSE, download_speed |-> 0, upload_speed |-> 0]

\* client_stats["client_type"] = ...; ["client_name"] = ...; ["supports_upload"] = ...
with_metadata(client_id, client_stats) ==
    LET meta == [client_type |-> get_client_type(client_id), client_name |-> client_id,
                 supports_upload |-> supports_upload(client_id)]
    IN [k \in DOMAIN client_stats \cup DOMAIN meta |->
          IF k \in DOMAIN meta THEN meta[k] ELSE client_stats[k]]

get_client_stats(config, status) ==
    [client_id \in Range(config.download_clients) |->
        with_metadata(client_id, get_stats(client_id, status[client_id]))]

\* How a set_speed_limits call ends: done, raised before anything was sent,
\* or (qBittorrent, two requests) raised after the download limit was sent.
Outcomes == {"ok", "raise", "raise_upload"}

\* The limits the daemon has been sent, in 1/100 Mbps; None: never sent.
NoLimits == [download_limit |-> None, upload_limit |-> None]

set_speed_limits(client_id, sent, download_limit, upload_limit, outcome) ==
    IF outcome = "raise" THEN sent
    ELSE IF get_client_type(client_id) = "sabnzbd"
    THEN [sent EXCEPT !.download_limit = Some(download_limit)]
    ELSE IF outcome = "raise_upload" /\ get_client_type(client_id) = "qbittorrent"
    THEN [sent EXCEPT !.download_limit = Some(download_limit)]
    ELSE [download_limit |-> Some(download_limit), upload_limit |-> Some(upload_limit)]

raises(client_id, outcome) ==
    \/ outcome = "raise"
    \/ outcome = "raise_upload" /\ get_client_type(client_id) = "qbittorrent"

\* A variant of apply_decisions without the try/except around each client: the
\* first call that raises ends the loop.
RECURSIVE apply_decisions_until_raise(_, _, _, _)
apply_decisions_until_raise(daemon, decisions, order, outcome) ==
    IF order = <<>> THEN [daemon |-> daemon, results |-> EmptyDict, called |-> {}]
    ELSE LET client_name == Head(order)
             sent == set_speed_limits(client_name, daemon[client_name],
                                      decisions[client_name].download_limit,
                                      decisions[client_name].upload_limit,
                                      outcome[client_name])
             rest == IF raises(client_name, outcome[client_name])
                     THEN [daemon |-> [daemon EXCEPT ![client_name] = sent],
                           results |-> EmptyDict, called |-> {}]
                     ELSE apply_decisions_until_raise([daemon EXCEPT ![client_name] = sent],
                                                      decisions, Tail(order), outcome)
         IN [daemon |-> rest.daemon,
             results |-> [c \in {client_name} \cup DOMAIN rest.results |->
                            IF c = client_name THEN ~raises(client_name, outcome[client_name])
                            ELSE rest.results[c]],
             called |-> {client_name} \cup rest.called]

\* apply_decisions: one client after the other, each in its own try/except.
RECURSIVE apply_decisions(_, _, _, _)
apply_decisions(daemon, decisions, order, outcome) ==
    IF order = <<>> THEN [daemon |-> daemon, results |-> EmptyDict, called |-> {}]
    ELSE LET client_name == Head(order)
             decision == decisions[client_name]
             sent == set_speed_limits(client_name, daemon[client_name],
                                      decision.download_limit, decision.upload_limit,
                                      outcome[client_name])
             rest == apply_decisions([daemon EXCEPT ![client_name] = sent], decisions,
                                     Tail(order), outcome)
         IN [daemon |-> rest.daemon,
             results |-> [c \in {client_name} \cup DOMAIN rest.results |->
                            IF c = client_name THEN ~raises(client_name, outcome[client_name])
                            ELSE rest.results[c]],
             called |-> {client_name} \cup rest.called]

\* The clients of `decisions` in the order of the dict (the configured order)
decision_order(config, decisions) ==
    SelectSeq(config.download_clients, LAMBDA c : c \in DOMAIN decisions)

(***************************************************************************)
(* The state of the running service.                                       *)
(***************************************************************************)
VARIABLES
    config,                     \* PollingMonitor.config (and the clients the controller built)
    now,                        \* the clock, in polling intervals
    plex_due,                   \* the stream loop's sleep is over
    download_due,               \* the download loop's sleep is over
    cached_streams,             \* PollingMonitor._cached_streams
    first_poll,                 \* PollingMonitor._first_poll
    plex_consecutive_failures,  \* PollingMonitor._plex_consecutive_failures
    plex_unreachable_warned,    \* PollingMonitor._plex_unreachable_warned
    reservations,               \* PollingMonitor._reservations
    tasks,                      \* the sleeping _clear_specific_reservation tasks
    temporary_limits,           \* PollingMonitor._temporary_limits
    client_unreachable_counts,  \* PollingMonitor._client_unreachable_counts
    client_unreachable_warned,  \* PollingMonitor._client_unreachable_warned
    inactive_counter,           \* DecisionEngine._inactive_counter
    upload_inactive_counter,    \* DecisionEngine._upload_inactive_counter
    daemon,                     \* the limits each download client has been sent
    calls,                      \* the set_speed_limits calls that overlap, in start order
    writer,                     \* history: the call whose request the daemon handled last
    monitoring,                 \* history: what the control surface last said of the monitoring
    engine_config,              \* DecisionEngine.config
    app_config,                 \* app.state.config
    shutdown,                   \* lifespan: the phase of the shutdown and its restore pass
    adapter,                    \* one download client adapter and the limits of its daemon
    rpc,                        \* one session-based adapter and its call in flight
    awaiting,                   \* where a suspended stream tick stands
    probe,                      \* SNMPMonitor: counter width and baseline of the link probe
    loops,                      \* the monitor loops: which of the two tasks still runs
    stopping,                   \* PollingMonitor.stop against the reservation timers and their lock
    limiter,                    \* login_rate_limiter and the logins it has admitted, for one client address
    good_streams,               \* history: the snapshot of the last successful stream poll
    last                        \* history: what the last step was and what it saw

vars == <<config, now, plex_due, download_due, cached_streams, first_poll,
          plex_consecutive_failures, plex_unreachable_warned, reservations, tasks,
          temporary_limits, client_unreachable_counts, client_unreachable_warned,
          inactive_counter, upload_inactive_counter, daemon, calls, writer,
          monitoring,
          engine_config,
          app_config,
          shutdown,
          adapter,
          rpc,
          awaiting,
          probe,
          loops,
          stopping,
          limiter,
          good_streams, last>>

plex_vars == <<cached_streams, first_poll, plex_consecutive_failures,
               plex_unreachable_warned, good_streams>>

download_vars == <<temporary_limits, client_unreachable_counts, client_unreachable_warned,
                   inactive_counter, upload_inactive_counter, daemon>>

actuation_vars == <<calls, writer>>

\* What the loops of the monitor never write
service_vars == <<monitoring, engine_config, app_config, shutdown, adapter, rpc, awaiting, probe, loops, stopping, limiter>>

tbl == Table(reservations, tasks)

\* PollingMonitor.__init__ and ControllerManager.__init__ with configuration c,
\* both loops about to run their first cycle, around a decision engine whose
\* streaks are counter and upload_counter.
Service(c, counter, upload_counter) ==
    /\ config = c
    /\ now = 0
    /\ plex_due = TRUE
    /\ download_due = TRUE
    /\ cached_streams = {}
    /\ first_poll = TRUE
    /\ plex_consecutive_failures = 0
    /\ plex_unreachable_warned = FALSE
    /\ reservations = <<>>
    /\ tasks = {}
    /\ temporary_limits = None
    /\ client_unreachable_counts = EmptyDict
    /\ client_unreachable_warned = EmptyDict
    /\ inactive_counter = counter
    /\ upload_inactive_counter = upload_counter
    /\ daemon = [c_id \in Range(c.download_clients) |-> NoLimits]
    /\ calls = <<>>
    /\ writer = [download |-> 0, upload |-> 0]
    /\ monitoring = "running"
    /\ engine_config = c
    /\ app_config = c
    /\ shutdown = [phase |-> "serving"]
    /\ adapter = [kind |-> "none"]
    /\ rpc = [kind |-> "none"]
    /\ awaiting = [at |-> "idle"]
    /\ probe = [use_64bit |-> TRUE, baseline |-> None, rejected |-> FALSE]
    /\ loops = [plex |-> "running", download |-> "running"]
    /\ stopping = [pc |-> "serving", lock |-> "free", idx |-> 0, timers |-> <<>>, list |-> <<>>, waited |-> {}]
    /\ limiter = [requests |-> None, blocked |-> None, clock |-> 0, pending |-> [good |-> 0, bad |-> 0], admitted |-> <<>>, since |-> <<>>, hit |-> None, lifted |-> FALSE]
    /\ good_streams = {}
    /\ last = [kind |-> "init"]

(***************************************************************************)
(* _plex_poll_cycle                                                        *)
(***************************************************************************)
\* get_active_streams returned new_streams; stopped_order and started_order
\* are the orders in which the two sets of session ids iterate.
\* The configuration as _handle_stopped_stream reads it: the monitor's own
\* for the LAN toggle and the overhead, the decision engine's for the delays
\* (self.decision_engine.calculate_restoration_delay).
stream_tick_config(monitor_config, decision_engine_config) ==
    [monitor_config EXCEPT !.restoration = decision_engine_config.restoration]

\* A variant of recovery_events that never tells of a recovery.
recovery_events_never(unreachable_warned) == {}

\* Lines 425-435: the recovery notification of a successful poll
recovery_events(unreachable_warned) ==
    IF unreachable_warned THEN {Event("service_unreachable", "Plex recovered")} ELSE {}

\* A variant of skips_stream_detection that treats the first poll as any other.
skips_stream_detection_never(first) == FALSE

\* Lines 466-478: the first poll returns before started and stopped streams
\* are looked for
skips_stream_detection(first) == first

\* A variant of PlexPollOk that handles the started sessions before the
\* stopped ones.
PlexPollOk_started_first(new_streams, stopped_order, started_order) ==
    LET old_streams == cached_streams
        recovered == recovery_events(plex_unreachable_warned)
        started == handle_started(tbl, started_order)
        stopped == handle_stopped(stream_tick_config(config, engine_config), started.tbl, now,
                                  stopped_order)
    IN /\ plex_due
       /\ plex_due' = FALSE
       /\ plex_consecutive_failures' = 0
       /\ plex_unreachable_warned' = FALSE
       /\ cached_streams' = new_streams
       /\ good_streams' = new_streams
       /\ first_poll' = FALSE
       /\ IF skips_stream_detection(first_poll)
          THEN /\ UNCHANGED <<reservations, tasks>>
               /\ last' = [kind |-> "plex_ok", first |-> first_poll, old_streams |-> old_streams,
                           before |-> tbl, after_stopped |-> tbl, events |-> recovered,
                           failures |-> plex_consecutive_failures,
                           warned |-> plex_unreachable_warned]
          ELSE /\ stopped_order \in Orders(stopped_streams(old_streams, new_streams))
               /\ started_order \in Orders(started_streams(old_streams, new_streams))
               /\ Len(stopped.tbl.reservations) <= MaxReservations
               /\ reservations' = stopped.tbl.reservations
               /\ tasks' = stopped.tbl.tasks
               /\ last' = [kind |-> "plex_ok", first |-> first_poll, old_streams |-> old_streams,
                           before |-> tbl, after_stopped |-> stopped.tbl,
                           events |-> recovered \cup stopped.events \cup started.events,
                           failures |-> plex_consecutive_failures,
                           warned |-> plex_unreachable_warned]
       /\ UNCHANGED <<service_vars, config, now, download_due>>
       /\ UNCHANGED download_vars
       /\ UNCHANGED actuation_vars

PlexPollOk(new_streams, stopped_order, started_order) ==
    LET old_streams == cached_streams
        recovered == recovery_events(plex_unreachable_warned)
        stopped == handle_stopped(stream_tick_config(config, engine_config), tbl, now,
                                  stopped_order)
        started == handle_started(stopped.tbl, started_order)
    IN /\ plex_due
       /\ plex_due' = FALSE
       /\ plex_consecutive_failures' = 0
       /\ plex_unreachable_warned' = FALSE
       /\ cached_streams' = new_streams
       /\ good_streams' = new_streams
       /\ first_poll' = FALSE
       /\ IF skips_stream_detection(first_poll)
          THEN /\ UNCHANGED <<reservations, tasks>>
               /\ last' = [kind |-> "plex_ok", first |-> first_poll, old_streams |-> old_streams,
                           before |-> tbl, after_stopped |-> tbl, events |-> recovered,
                           failures |-> plex_consecutive_failures,
                           warned |-> plex_unreachable_warned]
          ELSE /\ stopped_order \in Orders(stopped_streams(old_streams, new_streams))
               /\ started_order \in Orders(started_streams(old_streams, new_streams))
               /\ Len(stopped.tbl.reservations) <= MaxReservations
               /\ reservations' = started.tbl.reservations
               /\ tasks' = started.tbl.tasks
               /\ last' = [kind |-> "plex_ok", first |-> first_poll, old_streams |-> old_streams,
                           before |-> tbl, after_stopped |-> stopped.tbl,
                           events |-> recovered \cup stopped.events \cup started.events,
                           failures |-> plex_consecutive_failures,
                           warned |-> plex_unreachable_warned]
       /\ UNCHANGED <<service_vars, config, now, download_due>>
       /\ UNCHANGED download_vars
       /\ UNCHANGED actuation_vars

\* A variant of PlexPollFail that empties the cached snapshot.
PlexPollFailClearing(max_outage) ==
    /\ plex_due
    /\ plex_consecutive_failures < max_outage
    /\ plex_due' = FALSE
    /\ plex_consecutive_failures' = plex_consecutive_failures + 1
    /\ cached_streams' = {}
    /\ last' = [kind |-> "plex_fail", old_streams |-> cached_streams, before |-> tbl,
                events |-> {}]
    /\ UNCHANGED <<plex_unreachable_warned, good_streams, first_poll, reservations, tasks>>
    /\ UNCHANGED <<service_vars, config, now, download_due>>
    /\ UNCHANGED download_vars
    /\ UNCHANGED actuation_vars

\* get_active_streams raised.  The failure count has no bound in the
\* program; an outage is followed for max_outage polls.
PlexPollFail(max_outage) ==
    LET failures == plex_consecutive_failures + 1
        warn == failures # 1 /\ ~(failures <= plex_max_failures) /\ ~plex_unreachable_warned
    IN /\ plex_due
       /\ plex_consecutive_failures < max_outage
       /\ plex_due' = FALSE
       /\ plex_consecutive_failures' = failures
       /\ plex_unreachable_warned' = (plex_unreachable_warned \/ warn)
       /\ last' = [kind |-> "plex_fail", old_streams |-> cached_streams, before |-> tbl,
                   events |-> IF warn THEN {Event("service_unreachable", "Plex unreachable")}
                              ELSE {}]
       /\ UNCHANGED <<cached_streams, good_streams, first_poll, reservations, tasks>>
       /\ UNCHANGED <<service_vars, config, now, download_due>>
       /\ UNCHANGED download_vars
       /\ UNCHANGED actuation_vars

(***************************************************************************)
(* The reservation timers and the control surface.                         *)
(***************************************************************************)
\* A cleanup task's sleep is over and it runs.
TimerFire(task) ==
    LET after == _clear_specific_reservation(tbl, task)
    IN /\ task \in tasks
       /\ now >= task.wake_at
       /\ reservations' = after.reservations
       /\ tasks' = after.tasks
       /\ last' = [kind |-> "timer", task |-> task, before |-> tbl]
       /\ UNCHANGED <<service_vars, config, now, plex_due, download_due>>
       /\ UNCHANGED plex_vars
       /\ UNCHANGED download_vars
       /\ UNCHANGED actuation_vars

\* DELETE /reservations/{reservation_id}
ClearReservation(reservation_id) ==
    LET after == clear_reservation_by_id(tbl, reservation_id)
    IN /\ reservations' = after.reservations
       /\ tasks' = after.tasks
       /\ last' = [kind |-> "clear", id |-> reservation_id, before |-> tbl]
       /\ UNCHANGED <<service_vars, config, now, plex_due, download_due>>
       /\ UNCHANGED plex_vars
       /\ UNCHANGED download_vars
       /\ UNCHANGED actuation_vars

\* One polling interval (system.update_frequency) passes: both loops wake.  A
\* timer that is due runs before another whole interval has gone by.
Tick(horizon) ==
    /\ now < horizon
    /\ \A t \in tasks : t.wake_at >= now
    /\ now' = now + 1
    /\ plex_due' = TRUE
    /\ download_due' = TRUE
    /\ last' = [kind |-> "tick"]
    /\ UNCHANGED <<service_vars, config, reservations, tasks>>
    /\ UNCHANGED plex_vars
    /\ UNCHANGED download_vars
    /\ UNCHANGED actuation_vars

(***************************************************************************)
(* _download_poll_cycle                                                    *)
(***************************************************************************)
\* A variant of get_active_temporary_limits that never looks at the clock.
get_active_temporary_limits_unexpiring(limits, time) ==
    IF limits = None
    THEN [download |-> None, upload |-> None, kept |-> None]
    ELSE [download |-> limits.download_mbps, upload |-> limits.upload_mbps, kept |-> limits]

\* get_active_temporary_limits: the override in force, and the record kept.
\* download_mbps and upload_mbps are Optional[float] in the record.
get_active_temporary_limits(limits, time) ==
    IF limits = None
    THEN [download |-> None, upload |-> None, kept |-> None]
    ELSE IF time > limits.expires_at
    THEN [download |-> None, upload |-> None, kept |-> None]
    ELSE [download |-> limits.download_mbps, upload |-> limits.upload_mbps, kept |-> limits]

\* Lines 663-690: the consecutive failures of each client after this poll.
\* Only "at least plex_max_failures" is ever asked of a count, so the model
\* stops counting there.
unreachable_counts_after(counts, download_stats) ==
    [c \in DOMAIN counts \cup DOMAIN download_stats |->
        IF c \notin DOMAIN download_stats THEN counts[c]
        ELSE IF "error" \in DOMAIN download_stats[c]
        THEN Min(Get(counts, c, 0) + 1, plex_max_failures)
        ELSE 0]

newly_unreachable(counts, warned, download_stats) ==
    { c \in DOMAIN download_stats :
        /\ "error" \in DOMAIN download_stats[c]
        /\ unreachable_counts_after(counts, download_stats)[c] >= plex_max_failures
        /\ ~Get(warned, c, FALSE) }

unreachable_warned_after(counts, warned, download_stats) ==
    [c \in DOMAIN warned \cup DOMAIN download_stats |->
        IF c \notin DOMAIN download_stats THEN warned[c]
        ELSE IF "error" \in DOMAIN download_stats[c]
        THEN Get(warned, c, FALSE) \/ c \in newly_unreachable(counts, warned, download_stats)
        ELSE FALSE]

\* The download loop's cycle: status is what each client's get_stats finds,
\* outcome how each set_speed_limits call ends, now_time the time of day.
DownloadPollCycle(status, outcome, now_time) ==
    LET download_stats == get_client_stats(config, status)
        reserved_bandwidth == get_total_reserved_bandwidth(tbl)
        temp == get_active_temporary_limits(temporary_limits, now)
        result == calculate_throttle(engine_config, inactive_counter, upload_inactive_counter,
                                     cached_streams, download_stats, None, reserved_bandwidth,
                                     temp.download, temp.upload, 0, now_time)
        applied == apply_decisions(daemon, result.decisions,
                                   decision_order(config, result.decisions), outcome)
    IN /\ download_due
       /\ ~config.snmp.enabled
       /\ download_due' = FALSE
       /\ client_unreachable_counts' =
              unreachable_counts_after(client_unreachable_counts, download_stats)
       /\ client_unreachable_warned' =
              unreachable_warned_after(client_unreachable_counts, client_unreachable_warned,
                                       download_stats)
       /\ temporary_limits' = temp.kept
       /\ inactive_counter' = result.inactive_counter
       /\ upload_inactive_counter' = result.upload_inactive_counter
       /\ daemon' = applied.daemon
       /\ last' = [kind |-> "download", streams |-> cached_streams,
                   download_stats |-> download_stats, outcome |-> outcome,
                   reserved_bandwidth_mbps |-> reserved_bandwidth,
                   temp_download_limit |-> temp.download,
                   temp_upload_limit |-> temp.upload,
                   result |-> result, called |-> applied.called,
                   results |-> applied.results, before |-> tbl,
                   counters |-> <<inactive_counter, upload_inactive_counter>>,
                   now_time |-> now_time, at |-> now, override |-> temporary_limits,
                   events |-> { Event("service_unreachable", c) :
                                  c \in newly_unreachable(client_unreachable_counts,
                                                          client_unreachable_warned,
                                                          download_stats) }]
       /\ UNCHANGED <<service_vars, config, now, plex_due, reservations, tasks>>
       /\ UNCHANGED plex_vars
       /\ UNCHANGED actuation_vars

(***************************************************************************)
(* api/bandwidth.py: the temporary limits of the control surface.  Time is *)
(* counted in polling intervals, so is duration_hours.                     *)
(***************************************************************************)
set_temporary_limits(download_mbps, upload_mbps, duration_hours) ==
    /\ duration_hours > 0
    /\ temporary_limits' = [download_mbps |-> download_mbps, upload_mbps |-> upload_mbps,
                            expires_at |-> now + duration_hours, set_at |-> now]
    /\ last' = [kind |-> "set_temporary_limits"]
    /\ UNCHANGED <<service_vars, config, now, plex_due, download_due, reservations, tasks,
                   client_unreachable_counts, client_unreachable_warned,
                   inactive_counter, upload_inactive_counter, daemon>>
    /\ UNCHANGED plex_vars
    /\ UNCHANGED actuation_vars

clear_temporary_limits ==
    /\ temporary_limits' = None
    /\ last' = [kind |-> "clear_temporary_limits"]
    /\ UNCHANGED <<service_vars, config, now, plex_due, download_due, reservations, tasks,
                   client_unreachable_counts, client_unreachable_warned,
                   inactive_counter, upload_inactive_counter, daemon>>
    /\ UNCHANGED plex_vars
    /\ UNCHANGED actuation_vars

(***************************************************************************)
(* config_manager.py: a section of the configuration is updated.           *)
(***************************************************************************)
\* update_section and _reload_services for the sections "bandwidth" and
\* "system": the configuration is read back whole from the database, stored
\* in app.state.config and handed to the one service the section names.
\* (The "system" section itself, the polling frequency, is not modelled.)
_reload_services(section_name, bandwidth) ==
    LET reloaded == IF section_name = "bandwidth"
                    THEN [app_config EXCEPT !.bandwidth = bandwidth]
                    ELSE app_config
    IN /\ section_name \in {"bandwidth", "system"}
       /\ app_config' = reloaded
       /\ engine_config' = IF section_name = "bandwidth" THEN reloaded ELSE engine_config
       /\ config' = IF section_name = "system" THEN reloaded ELSE config
       /\ last' = [kind |-> "reload", section_name |-> section_name]
       /\ UNCHANGED <<limiter, stopping, loops, probe, awaiting, rpc, adapter, shutdown, monitoring, now, plex_due, download_due, reservations, tasks>>
       /\ UNCHANGED plex_vars
       /\ UNCHANGED download_vars
       /\ UNCHANGED actuation_vars

(***************************************************************************)
(* controller_manager.py and api/control.py: restoring, pausing, resuming. *)
(***************************************************************************)
\* What a daemon holds after its adapter's restore_speed_limits went through
Restored == [download_limit |-> [restored |-> TRUE], upload_limit |-> [restored |-> TRUE]]

\* restore_all_speeds: every client's restore_speed_limits, each tried up to
\* three times; reached says for which clients a try went through.
restore_all_speeds(sent, reached) ==
    [c \in DOMAIN sent |-> IF c \in reached THEN Restored ELSE sent[c]]

\* POST /pause-monitoring: restores the speeds if asked to and answers
\* "Monitoring paused"; the monitor itself is told nothing.
pause_monitoring(restore_speeds, reached) ==
    /\ daemon' = IF restore_speeds THEN restore_all_speeds(daemon, reached) ELSE daemon
    /\ monitoring' = "paused"
    /\ last' = [kind |-> "pause_monitoring", restore_speeds |-> restore_speeds]
    /\ UNCHANGED <<limiter, stopping, loops, probe, awaiting, rpc, adapter, shutdown, engine_config, app_config, config, now, plex_due, download_due, reservations, tasks,
                   temporary_limits, client_unreachable_counts, client_unreachable_warned,
                   inactive_counter, upload_inactive_counter>>
    /\ UNCHANGED plex_vars
    /\ UNCHANGED actuation_vars

\* POST /resume-monitoring: answers "Monitoring resumed".
resume_monitoring ==
    /\ monitoring' = "running"
    /\ last' = [kind |-> "resume_monitoring"]
    /\ UNCHANGED <<limiter, stopping, loops, probe, awaiting, rpc, adapter, shutdown, engine_config, app_config, config, now, plex_due, download_due, reservations, tasks>>
    /\ UNCHANGED plex_vars
    /\ UNCHANGED download_vars
    /\ UNCHANGED actuation_vars

(***************************************************************************)
(* The decision engine on its own: one call of calculate_throttle.         *)
(***************************************************************************)
Throttle(active_streams, status, snmp_data, reserved_bandwidth_mbps, temp_download_limit, temp_upload_limit, now_time) ==
    LET download_stats == get_client_stats(config, status)
        result == calculate_throttle(engine_config, inactive_counter, upload_inactive_counter,
                                     active_streams, download_stats, snmp_data,
                                     reserved_bandwidth_mbps, temp_download_limit,
                                     temp_upload_limit, 0, now_time)
    IN /\ last.kind = "init"
       /\ inactive_counter' = result.inactive_counter
       /\ upload_inactive_counter' = result.upload_inactive_counter
       /\ last' = [kind |-> "throttle", streams |-> active_streams,
                   download_stats |-> download_stats,
                   reserved_bandwidth_mbps |-> reserved_bandwidth_mbps,
                   temp_download_limit |-> temp_download_limit,
                   temp_upload_limit |-> temp_upload_limit,
                   result |-> result, snmp_data |-> snmp_data,
                   counters |-> <<inactive_counter, upload_inactive_counter>>,
                   now_time |-> now_time]
       /\ UNCHANGED <<service_vars, config, now, plex_due, download_due, reservations, tasks,
                      temporary_limits, client_unreachable_counts,
                      client_unreachable_warned, daemon>>
       /\ UNCHANGED plex_vars
       /\ UNCHANGED actuation_vars

(***************************************************************************)
(* Specifications.                                                         *)
(***************************************************************************)
\* ... and DecisionEngine.__init__: no streaks yet
Constructed(c) == Service(c, EmptyDict, EmptyDict)

\* The stream loop, the reservation timers and the control surface.
Init == \E c \in ConfigSpace : Constructed(c)

\* The started sessions only cancel, and cancellations commute: one order
\* stands for all.
PlexOk ==
    \E new_streams \in Snapshots :
        \E stopped_order \in Orders(stopped_streams(cached_streams, new_streams)) :
            PlexPollOk(new_streams, stopped_order,
                       CHOOSE o \in Orders(started_streams(cached_streams, new_streams)) : TRUE)

PlexFail == PlexPollFail(MaxOutage)

Timer == \E task \in tasks : TimerFire(task)

Clear == \E reservation_id \in Ids(tbl) : ClearReservation(reservation_id)

Time == Tick(MaxTime)

Next == PlexOk \/ PlexFail \/ Timer \/ Clear \/ Time

Spec == Init /\ [][Next]_vars

\* The decision engine: one call on every input, after a run of busy polls
\* (streaks 0) and after a run of quiet ones (streaks one short of the buffer).
Streaks == {0, INACTIVE_BUFFER_INTERVALS - 1}

\* Times of day: inside and outside the 22:00-06:00 window
TimesOfDay == {HHMM(23, 0), HHMM(12, 0)}

AllocSnapshots ==
    { {}, {s \in Sessions : s.session_id = "s1"},
      {s \in Sessions : s.session_id \in {"s1", "s2"}},
      {s \in Sessions : s.session_id \in {"s3", "s4"}} }

InitAlloc ==
    \E c \in AllocConfigSpace :
        \E streak \in Streaks :
            Service(c, [x \in Range(c.download_clients) |-> streak],
                    [x \in { y \in Range(c.download_clients) : supports_upload(y) } |->
                        streak])

\* Every client busy or idle, the first one possibly slow.
AllocStatuses ==
    { st \in [Range(config.download_clients) -> {"busy", "idle", "slow"}] :
        \A c \in DOMAIN st : st[c] = "slow" => c = config.download_clients[1] }

NextAlloc ==
    \E active_streams \in AllocSnapshots :
        \E status \in AllocStatuses :
            \E snmp_data \in {None, get_bandwidth(Mbps(5), Mbps(1))} :
                \E reserved \in {0, Mbps(6), Mbps(12)} :
                    \E temp \in {<<None, None>>, <<Some(Mbps(5)), Some(Mbps(2))>>,
                                      <<Some(0), Some(0)>>, <<None, Some(Mbps(3))>>} :
                        \E now_time \in TimesOfDay :
                            Throttle(active_streams, status, snmp_data, reserved,
                                     temp[1], temp[2], now_time)

SpecAlloc == InitAlloc /\ [][NextAlloc]_vars

\* Both loops, with at most one faulty adapter in a cycle.
TickSnapshots ==
    { {}, {s \in Sessions : s.session_id = "s1"}, {s \in Sessions : s.session_id = "s3"} }

\* What a download cycle meets: every client busy, or every client idle, or
\* one client whose get_stats fails, whose set_speed_limits raises, or both.
TickInputs ==
    LET clients == Range(config.download_clients)
    IN { in \in [status : [clients -> Statuses], outcome : [clients -> Outcomes]] :
           LET faulty == { c \in clients : in.status[c] = "error" \/ in.outcome[c] # "ok" }
           IN /\ Cardinality(faulty) <= 1
              /\ \/ \A c \in clients : in.status[c] = "idle" /\ in.outcome[c] = "ok"
                 \/ \A c \in clients : in.status[c] # "idle"
              /\ \A c \in clients :
                    in.outcome[c] = "raise_upload" =>
                        get_client_type(c) = "qbittorrent" /\ in.status[c] = "busy" }

InitTick == Constructed(ConfigDefault)

TickPlexOk ==
    \E new_streams \in TickSnapshots :
        \E stopped_order \in Orders(stopped_streams(cached_streams, new_streams)) :
            PlexPollOk(new_streams, stopped_order,
                       CHOOSE o \in Orders(started_streams(cached_streams, new_streams)) : TRUE)

TickPlexFail == PlexPollFail(TickHorizon + 1)

Download == \E in \in TickInputs : DownloadPollCycle(in.status, in.outcome, HHMM(12, 0))

TickTime == Tick(TickHorizon)

NextTick == TickPlexOk \/ TickPlexFail \/ Download \/ TickTime

SpecTick == InitTick /\ [][NextTick]_vars

(***************************************************************************)
(* Actuation step by step: a legacy installation whose one client has the  *)
(* id "qbittorrent", which is the key manual_throttle addresses.           *)
(* set_speed_limits awaits each of its HTTP requests, nothing serializes   *)
(* the calls on one client, and requests that are outstanding together     *)
(* travel on connections of their own: the daemon handles them in any      *)
(* order.  Limits are in 1/100 Mbps.                                       *)
(***************************************************************************)
ConfigLegacy ==
    SpeedarrConfig(<<"qbittorrent">>, EmptyDict, EmptyDict, 5, 100, 5, FALSE,
                   NoSchedule, NoSchedule, 1, 2)

\* The request a set_speed_limits call sends first, and the one it sends
\* after the response to `sent` ("done": it returns).
first_request(download_limit, upload_limit) ==
    IF download_limit # None THEN "download"
    ELSE IF upload_limit # None THEN "upload" ELSE "done"

next_request(call, sent) ==
    IF sent = "download" /\ call.upload_limit # None THEN "upload" ELSE "done"

\* A call of QBittorrentClient.set_speed_limits that has sent its first request.
Call(origin, download_limit, upload_limit) ==
    [origin |-> origin, download_limit |-> download_limit, upload_limit |-> upload_limit,
     awaiting |-> first_request(download_limit, upload_limit)]

\* The download cycle up to the first request of its set_speed_limits call.
\* The loop runs one cycle at a time: its previous call has returned.
TickSetLimits(status) ==
    LET download_stats == get_client_stats(config, status)
        reserved_bandwidth == get_total_reserved_bandwidth(tbl)
        temp == get_active_temporary_limits(temporary_limits, now)
        result == calculate_throttle(engine_config, inactive_counter, upload_inactive_counter,
                                     cached_streams, download_stats, None, reserved_bandwidth,
                                     temp.download, temp.upload, 0, HHMM(12, 0))
        decision == result.decisions["qbittorrent"]
    IN /\ download_due
       /\ config.download_clients = <<"qbittorrent">>
       /\ Len(calls) < MaxCalls
       /\ \A n \in DOMAIN calls : calls[n].origin = "tick" => calls[n].awaiting = "done"
       /\ download_due' = FALSE
       /\ client_unreachable_counts' =
              unreachable_counts_after(client_unreachable_counts, download_stats)
       /\ client_unreachable_warned' =
              unreachable_warned_after(client_unreachable_counts, client_unreachable_warned,
                                       download_stats)
       /\ temporary_limits' = temp.kept
       /\ inactive_counter' = result.inactive_counter
       /\ upload_inactive_counter' = result.upload_inactive_counter
       /\ calls' = Append(calls, Call("tick", Some(decision.download_limit),
                                      Some(decision.upload_limit)))
       /\ last' = [kind |-> "set_limits", origin |-> "tick"]
       /\ UNCHANGED <<service_vars, config, now, plex_due, reservations, tasks, daemon, writer>>
       /\ UNCHANGED plex_vars

\* POST /api/control/manual-throttle with limits for qBittorrent, up to the
\* first request of set_speed_limits.
ManualThrottle(download_limit, upload_limit) ==
    /\ download_limit # None \/ upload_limit # None
    /\ "qbittorrent" \in Range(config.download_clients)
    /\ Len(calls) < MaxCalls
    /\ calls' = Append(calls, Call("manual", download_limit, upload_limit))
    /\ last' = [kind |-> "set_limits", origin |-> "manual"]
    /\ UNCHANGED <<service_vars, config, now, plex_due, download_due, reservations, tasks, daemon, writer>>
    /\ UNCHANGED plex_vars
    /\ UNCHANGED <<temporary_limits, client_unreachable_counts, client_unreachable_warned,
                   inactive_counter, upload_inactive_counter>>

\* The daemon handles the outstanding request of call n and answers; the call
\* goes on to its next request or returns.
Respond(n) ==
    /\ n \in DOMAIN calls
    /\ calls[n].awaiting \in {"download", "upload"}
    /\ daemon' = [daemon EXCEPT !["qbittorrent"] =
                     IF calls[n].awaiting = "download"
                     THEN [@ EXCEPT !.download_limit = calls[n].download_limit]
                     ELSE [@ EXCEPT !.upload_limit = calls[n].upload_limit]]
    /\ writer' = [writer EXCEPT ![calls[n].awaiting] = n]
    /\ calls' = [calls EXCEPT ![n].awaiting = next_request(calls[n], calls[n].awaiting)]
    /\ last' = [kind |-> "respond", call |-> n, request |-> calls[n].awaiting]
    /\ UNCHANGED <<service_vars, config, now, plex_due, download_due, reservations, tasks>>
    /\ UNCHANGED plex_vars
    /\ UNCHANGED <<temporary_limits, client_unreachable_counts, client_unreachable_warned,
                   inactive_counter, upload_inactive_counter>>

InitActuate == Constructed(ConfigLegacy)

ActTick == \E status \in [Range(config.download_clients) -> {"busy", "idle"}] : TickSetLimits(status)

ActManual ==
    \E limits \in {<<Some(500), Some(100)>>, <<Some(1000), None>>} :
        ManualThrottle(limits[1], limits[2])

ActRespond == \E n \in DOMAIN calls : Respond(n)

NextActuate == TickPlexOk \/ ActTick \/ ActManual \/ ActRespond \/ TickTime

SpecActuate == InitActuate /\ [][NextActuate]_vars

\* The stream loop through outages longer than plex_max_failures polls.
OutageSnapshots == { {}, {s \in Sessions : s.session_id = "s1"} }

InitOutage == Constructed(ConfigDefault)

OutagePlexOk ==
    \E new_streams \in OutageSnapshots :
        \E stopped_order \in Orders(stopped_streams(cached_streams, new_streams)) :
            PlexPollOk(new_streams, stopped_order,
                       CHOOSE o \in Orders(started_streams(cached_streams, new_streams)) : TRUE)

OutagePlexFail == PlexPollFail(MaxFailures)

OutageTime == Tick(MaxFailures)

NextOutage == OutagePlexOk \/ OutagePlexFail \/ Timer \/ OutageTime

SpecOutage == InitOutage /\ [][NextOutage]_vars

\* The download loop under temporary limits set, expiring and cleared.
InitOverride == Constructed(ConfigDaytime)

OverrideDownload ==
    \E activity \in {"busy", "idle"} :
        DownloadPollCycle([c \in Range(config.download_clients) |-> activity],
                          [c \in Range(config.download_clients) |-> "ok"], HHMM(12, 0))

OverrideSet ==
    \E limits \in {<<Some(Mbps(5)), Some(Mbps(2))>>, <<Some(Mbps(5)), None>>} :
        \E duration_hours \in 1..2 :
            set_temporary_limits(limits[1], limits[2], duration_hours)

OverrideClear == temporary_limits # None /\ clear_temporary_limits

OverrideTime == Tick(MaxOverrideTime)

NextOverride == OverrideDownload \/ OverrideSet \/ OverrideClear \/ OverrideTime

SpecOverride == InitOverride /\ [][NextOverride]_vars

\* Both loops while sections of the configuration are updated: the overhead
\* of the streams goes from 100% to 20% and back.
ConfigReloaded ==
    SpeedarrConfig(ClientIds, EmptyDict, EmptyDict, 5, 20, 5,
                   FALSE, NoSchedule, NoSchedule, 1, 2)

Reload ==
    \E section_name \in {"bandwidth", "system"} :
        \E bandwidth \in {ConfigDefault.bandwidth, ConfigReloaded.bandwidth} :
            /\ section_name = "bandwidth" => bandwidth # app_config.bandwidth
            /\ section_name = "system" => bandwidth = app_config.bandwidth
            /\ _reload_services(section_name, bandwidth)

ReloadDownload ==
    DownloadPollCycle([c \in Range(config.download_clients) |-> "busy"],
                      [c \in Range(config.download_clients) |-> "ok"], HHMM(12, 0))

NextReload == TickPlexOk \/ ReloadDownload \/ Reload \/ TickTime

SpecReload == InitTick /\ [][NextReload]_vars

\* The download loop while the operator pauses and resumes the monitoring.
Pause ==
    \E restore_speeds \in BOOLEAN :
        \E reached \in SUBSET Range(config.download_clients) :
            /\ monitoring = "running"
            /\ ~restore_speeds => reached = {}
            /\ pause_monitoring(restore_speeds, reached)

Resume == monitoring = "paused" /\ resume_monitoring

NextPause == OverrideDownload \/ Pause \/ Resume \/ OverrideTime

SpecPause == InitOverride /\ [][NextPause]_vars

(***************************************************************************)
(* Properties of the decisions of one download tick.                       *)
(***************************************************************************)
\* The last step computed throttle decisions.
Decided == last.kind \in {"throttle", "download"}

Decisions == last.result.decisions

UploadCapable == upload_clients(last.download_stats)

\* Sums of the decided limits, in 1/100 Mbps
SumDownloadLimits ==
    SumOver([c \in DOMAIN Decisions |-> Decisions[c].download_limit], DOMAIN Decisions)

SumUploadLimits ==
    SumOver([c \in UploadCapable |-> Decisions[c].upload_limit], UploadCapable)

\* Total stream cost exceeds the effective upload total.
Emergency ==
    plex_exceeds_limit(last.result.total_stream_bandwidth, last.result.upload_total_limit)

\* C2, as claimed: outside emergency mode the upload limits of the
\* upload-capable clients sum to at most the effective upload capacity minus
\* the live reservations.
C2_AsClaimed ==
    (Decided /\ ~Emergency) =>
        100 * SumUploadLimits
            <= last.result.upload_total_limit - last.reserved_bandwidth_mbps

\* C2: outside emergency mode the upload limits of the upload-capable clients
\* sum to at most what is left of the effective upload capacity after the
\* stream cost and the live reservations, floored at zero, up to a rounding
\* error of 0.01 Mbps per client.
C2_UploadSumWithinAvailable ==
    (Decided /\ ~Emergency) =>
        100 * SumUploadLimits
            <= Max(0, last.result.upload_total_limit - last.result.total_stream_bandwidth
                        - last.reserved_bandwidth_mbps)
               + 100 * Cardinality(UploadCapable)

\* A tick with streams playing and a reservation held that still leaves the
\* uploaders something.
C2_Witness ==
    /\ Decided
    /\ ~Emergency
    /\ last.result.total_stream_bandwidth > 0
    /\ last.reserved_bandwidth_mbps > 0
    /\ SumUploadLimits > 0
    /\ Cardinality(UploadCapable) >= 2

\* C3, as claimed: in emergency mode every upload-capable client's upload limit
\* is exactly 1% of the upload total, whatever the activity, the percentages
\* and the reservations.
C3_OnePercentEach ==
    (Decided /\ Emergency) =>
        \A c \in UploadCapable :
            Decisions[c].upload_limit = Round2(Frac(last.result.upload_total_limit, 100))

\* C4: the download limits of all enabled clients sum to at most the effective
\* download capacity of the tick, up to a rounding error of 0.01 Mbps per client.
C4_DownloadSumWithinCapacity ==
    Decided =>
        100 * SumDownloadLimits
            <= last.result.download_total_limit + 100 * Cardinality(DOMAIN Decisions)

\* A tick under a temporary override whose rounded limits add up to more than
\* the override, within the rounding error.
C4_Witness ==
    /\ last.kind = "throttle"
    /\ last.temp_download_limit # None
    /\ last.result.download_total_limit > 0
    /\ 100 * SumDownloadLimits > last.result.download_total_limit

(***************************************************************************)
(* Properties of the stream tick and the reservation table.                *)
(***************************************************************************)
\* The last step was a stream tick that compared two snapshots.
StreamTick == last.kind = "plex_ok" /\ ~last.first

\* The sessions that tick found gone, and the ones it found new.
Stopped == stopped_streams(last.old_streams, cached_streams)

Started == started_streams(last.old_streams, cached_streams)

\* A session that counts towards the stream cost.
Counted(s) == config.plex.include_lan_streams \/ ~s.is_lan

\* The bandwidth a session is counted at, and the hold its kind asks for.
Cost(s) == calculate_stream_bandwidth(s, config.bandwidth.streams.overhead_percent)

DelayFor(s) ==
    IF s.media_type = "movie" THEN config.restoration.delays.movie_end
    ELSE config.restoration.delays.episode_end

\* Reservation r is (u, p, b, delays[K]) of session s.
Holds(r, s) ==
    /\ r.user_id = s.user_id
    /\ r.player = s.player
    /\ r.bandwidth_mbps = Cost(s)
    /\ r.duration_seconds = DelayFor(s)

SamePair(a, b) == a.user_id = b.user_id /\ a.player = b.player

\* The reservations of table t that the last step did not find there.
Inserted(t) == { r \in Range(t.reservations) : r \notin Range(last.before.reservations) }

\* Reservation r is in the table as it was, and its timer is still asleep.
Untouched(r) ==
    /\ r \in Range(reservations)
    /\ [id |-> r.id, wake_at |-> r.expires_at] \in tasks

\* C1: a failed stream poll leaves the cached snapshot and the reservation
\* table as they were and sends no start or end event, and a download tick
\* during the outage computes the stream cost from the snapshot of the last
\* successful poll.
C1_OutageKeepsSnapshot ==
    /\ last.kind = "plex_fail" =>
          /\ cached_streams = last.old_streams
          /\ tbl = last.before
          /\ \A e \in last.events : e.type \notin {"stream_started", "stream_ended"}
    /\ (last.kind = "download" /\ plex_consecutive_failures > 0) =>
          /\ last.streams = good_streams
          /\ last.result.total_stream_bandwidth = total_stream_bandwidth(config, good_streams)

\* A download tick during an outage that began while a stream was playing.
C1_Witness ==
    /\ last.kind = "download"
    /\ plex_consecutive_failures > 0
    /\ good_streams # {}
    /\ last.result.total_stream_bandwidth > 0

\* C5, as claimed: after the stream tick that finds a counted session gone,
\* exactly one reservation (u, p, b, delays[K]) is in the table.
C5_AsClaimed ==
    StreamTick =>
        \A s \in Stopped :
            Counted(s) => Cardinality({ r \in Range(reservations) : Holds(r, s) }) = 1

\* C5: the stream tick that finds a counted session gone, its kind's delay
\* positive and no session of its user and player new in the snapshot,
\* inserts one reservation (u, p, b, delays[K]), due delays[K] after the tick,
\* for each session of these four values that it finds gone.
C5_OneReservationPerEndedSession ==
    StreamTick =>
        \A s \in Stopped :
            (Counted(s) /\ DelayFor(s) > 0 /\ ~\E n \in Started : SamePair(n, s)) =>
                Cardinality({ r \in Inserted(tbl) :
                                Holds(r, s) /\ r.expires_at = now + DelayFor(s) })
                    = Cardinality({ x \in Stopped :
                                      /\ Counted(x)
                                      /\ SamePair(x, s)
                                      /\ Cost(x) = Cost(s)
                                      /\ DelayFor(x) = DelayFor(s) })

\* A movie ends while an earlier reservation is still held.
C5_Witness ==
    /\ StreamTick
    /\ last.before.reservations # <<>>
    /\ \E s \in Stopped :
          /\ s.media_type = "movie"
          /\ Counted(s)
          /\ DelayFor(s) > 0
          /\ ~\E n \in Started : SamePair(n, s)
          /\ \E r \in Inserted(tbl) : Holds(r, s)

\* C6: after the stream tick that finds a session new in the snapshot, no
\* reservation of that session's user and player is in the table and no timer
\* of such a reservation is left.
C6_ReappearanceCancels ==
    StreamTick =>
        \A s \in Started :
            (Truthy(s.user_id) /\ Truthy(s.player)) =>
                /\ \A r \in Range(reservations) : ~SamePair(r, s)
                /\ \A t \in tasks : ~(t.id[1] = s.user_id /\ t.id[2] = s.player)

\* A session starts while two reservations of its user and player are held
\* and a reservation of another pair stays.
C6_Witness ==
    /\ StreamTick
    /\ \E s \in Started :
          /\ Cardinality({ r \in Range(last.before.reservations) : SamePair(r, s) }) >= 2
          /\ \A r \in Range(reservations) : ~SamePair(r, s)
          /\ \A t \in tasks : ~(t.id[1] = s.user_id /\ t.id[2] = s.player)

\* C7: a stream tick leaves every reservation whose user and player no new
\* session has, a timer every reservation but its own, and a clear by id every
\* reservation but the one named, in the table with the same id, bandwidth and
\* deadline and with its timer asleep; a failed stream poll leaves them all.
C7_OthersUntouched ==
    /\ StreamTick =>
          \A r \in Range(last.before.reservations) :
              (~\E s \in Started : SamePair(s, r)) => Untouched(r)
    /\ last.kind = "plex_fail" =>
          \A r \in Range(last.before.reservations) : Untouched(r)
    /\ last.kind = "timer" =>
          \A r \in Range(last.before.reservations) : r.id # last.task.id => Untouched(r)
    /\ last.kind = "clear" =>
          \A r \in Range(last.before.reservations) : r.id # last.id => Untouched(r)

\* The same user starts on another player and another user on the same
\* player, in a tick that also inserts a reservation: the one held stays.
C7_Witness ==
    /\ StreamTick
    /\ Inserted(tbl) # {}
    /\ \E r \in Range(last.before.reservations) :
          /\ \E s \in Started : s.user_id = r.user_id /\ s.player # r.player
          /\ \E s \in Started : s.user_id # r.user_id /\ s.player = r.player
          /\ Untouched(r)

\* C8: with LAN streams left out, the stops of a stream tick insert one
\* reservation for each session gone that is not a LAN session and whose delay
\* is positive, none for a LAN session; a tick that finds only LAN sessions
\* gone and none new leaves the table and the reserved total as they were.
C8_LanEndReservesNothing ==
    (StreamTick /\ ~config.plex.include_lan_streams) =>
        /\ Len(last.after_stopped.reservations) - Len(last.before.reservations)
              = Cardinality({ s \in Stopped : ~s.is_lan /\ DelayFor(s) > 0 })
        /\ \A s \in Stopped :
              (s.is_lan /\ ~\E x \in Stopped : ~x.is_lan /\ SamePair(x, s)) =>
                  ~\E r \in Inserted(last.after_stopped) : SamePair(r, s)
        /\ ((\A s \in Stopped : s.is_lan) /\ Started = {}) =>
              /\ tbl = last.before
              /\ get_total_reserved_bandwidth(tbl) = get_total_reserved_bandwidth(last.before)

\* A LAN session ends while bandwidth is held for another session.
C8_Witness ==
    /\ StreamTick
    /\ ~config.plex.include_lan_streams
    /\ Stopped # {}
    /\ \A s \in Stopped : s.is_lan
    /\ get_total_reserved_bandwidth(last.before) > 0
    /\ get_total_reserved_bandwidth(tbl) = get_total_reserved_bandwidth(last.before)

\* C9: every reservation in the table has its own timer, asleep until the
\* reservation's deadline, no timer is left without its reservation, and no
\* reservation is in the table more than one tick after its deadline.
C9_NoReservationOutlivesItsTimer ==
    /\ \A r \in Range(reservations) :
          /\ [id |-> r.id, wake_at |-> r.expires_at] \in tasks
          /\ now <= r.expires_at + 1
    /\ \A t \in tasks : t.id \in Ids(tbl)
    /\ \A i, j \in DOMAIN reservations : i # j => reservations[i].id # reservations[j].id

\* A timer runs one tick after its deadline, between the insertion and the
\* expiry of another reservation: its own reservation goes, the other stays.
C9_Witness ==
    /\ last.kind = "timer"
    /\ now = last.task.wake_at + 1
    /\ last.task.id \in Ids(last.before)
    /\ last.task.id \notin Ids(tbl)
    /\ reservations # <<>>
    /\ Len(reservations) = Len(last.before.reservations) - 1

(***************************************************************************)
(* Properties of a download tick with a faulty adapter.                    *)
(***************************************************************************)
\* The clients whose get_stats failed in the last download tick.
Errored == { c \in DOMAIN last.download_stats : "error" \in DOMAIN last.download_stats[c] }

\* The stats of that tick had each failed client answered as an idle one.
StatsWithoutErrors ==
    [c \in DOMAIN last.download_stats |->
        IF c \in Errored THEN with_metadata(c, get_stats(c, "idle"))
        ELSE last.download_stats[c]]

Handled(n, direction) ==
    IF direction = "download"
    THEN calls[n].download_limit # None /\ calls[n].awaiting # "download"
    ELSE calls[n].upload_limit # None /\ calls[n].awaiting = "done"

\* C11, as claimed: the limit-writing calls on one adapter take effect in
\* start order; in each direction the limit in effect is the one written by
\* the latest-started of the calls whose write the daemon has handled.
C11_StartOrder ==
    \A direction \in {"download", "upload"} :
        \A n \in DOMAIN calls : Handled(n, direction) => writer[direction] >= n

(***************************************************************************)
(* Properties of the download allocation of one tick.                      *)
(***************************************************************************)
Clients == DOMAIN last.download_stats

\* The download speed the tick observed, and whether it is above the
\* activity threshold, a tenth of an equal share of the available download.
Speed(c) == Get(last.download_stats[c], "download_speed", 0)

Above(c) == Speed(c) * 10 * Cardinality(Clients) > last.result.available_download

\* The below-threshold streak a client came into the tick with.
StreakBefore(c) == Get(last.counters[1], c, 0)

\* The clients the tick has to treat as active.
EffectivelyActive ==
    { c \in Clients : Above(c) \/ StreakBefore(c) + 1 < INACTIVE_BUFFER_INTERVALS }

DownloadInSchedule == is_within_schedule(config.bandwidth.download.scheduled, last.now_time)

\* C12: a tick that observes a client above the threshold resets its streak
\* to 0; one that observes it at or below adds one to the streak; the download
\* limits of the tick are those of an allocation in which exactly the clients
\* above the threshold or with a streak still short of 6 are active.
C12_InactiveAfterSixQuietTicks ==
    Decided =>
        /\ \A c \in Clients :
              IF Above(c) THEN inactive_counter[c] = 0
              ELSE IF StreakBefore(c) + 1 < INACTIVE_BUFFER_INTERVALS
              THEN inactive_counter[c] = StreakBefore(c) + 1
              ELSE inactive_counter[c] >= INACTIVE_BUFFER_INTERVALS
        /\ \A c \in Clients :
              Decisions[c].download_limit
                  = Round2(_allocate_download_bandwidth(
                               config, Clients, last.result.available_download,
                               EffectivelyActive, DownloadInSchedule)[c])

\* A client exactly at the threshold on its sixth quiet tick becomes
\* inactive, next to one that picks up again after five quiet ticks.
C12_Witness ==
    /\ Decided
    /\ \E c, d \in Clients :
          /\ Speed(c) > 0
          /\ Speed(c) * 10 * Cardinality(Clients) = last.result.available_download
          /\ StreakBefore(c) = INACTIVE_BUFFER_INTERVALS - 1
          /\ inactive_counter[c] = INACTIVE_BUFFER_INTERVALS
          /\ c \notin EffectivelyActive
          /\ Above(d)
          /\ StreakBefore(d) = INACTIVE_BUFFER_INTERVALS - 1
          /\ inactive_counter[d] = 0

\* The safety-net percentage of the download configuration.
SafetyNet == config.bandwidth.download.inactive_safety_net_percent

\* The inactive clients of the tick that have an active peer.
InactiveWithPeer == IF EffectivelyActive = {} THEN {} ELSE Clients \ EffectivelyActive

DownloadPercents ==
    LET download == config.bandwidth.download
    IN IF DownloadInSchedule /\ DOMAIN download.scheduled.client_percents # {}
       THEN download.scheduled.client_percents
       ELSE download.client_percents

AllExplicit == \A a \in EffectivelyActive : get_client_type(a) \in DOMAIN DownloadPercents

SumActivePercents ==
    SumOver([a \in EffectivelyActive |-> DownloadPercents[get_client_type(a)]],
            EffectivelyActive)

\* What the rules give client c out of D = available download, as a fraction.
ExpectedDownload(c) ==
    LET D == last.result.available_download
        N == Cardinality(Clients)
        A == EffectivelyActive
        pool == 100 - Cardinality(Clients \ A) * SafetyNet
    IN IF A = {} THEN Frac(D, N)
       ELSE IF c \notin A THEN Frac(D * SafetyNet, 100)
       ELSE IF Cardinality(A) = 1 THEN Frac(D * pool, 100)
       ELSE IF AllExplicit /\ SumActivePercents > 0
       THEN Frac(D * pool * DownloadPercents[get_client_type(c)], 100 * SumActivePercents)
       ELSE Frac(D * pool, 100 * Cardinality(A))

C15_NoUploadForDownloadOnly ==
    Decided =>
        \A c \in Clients \ UploadCapable : Decisions[c].upload_limit = 0

\* An emergency tick that decides for a client without upload next to one
\* with upload that is handed a positive limit.
C15_Witness ==
    /\ Decided
    /\ Emergency
    /\ Clients \ UploadCapable # {}
    /\ \E d \in UploadCapable : Decisions[d].upload_limit > 0

(***************************************************************************)
(* Properties of the capacity a download tick uses.                        *)
(***************************************************************************)
\* The time of day lies inside the window of an enabled schedule, the window
\* running within one day or over midnight.
InWindow(schedule, time_of_day) ==
    /\ schedule.enabled
    /\ \/ /\ schedule.start_time <= schedule.end_time
          /\ schedule.start_time <= time_of_day
          /\ time_of_day <= schedule.end_time
       \/ /\ schedule.start_time > schedule.end_time
          /\ (time_of_day >= schedule.start_time \/ time_of_day <= schedule.end_time)

\* The capacity of one direction under an override (None when there is none).
ExpectedTotal(direction, override) ==
    IF override # None THEN override.value
    ELSE IF InWindow(direction.scheduled, last.now_time) /\ direction.scheduled.total_limit > 0
         THEN direction.scheduled.total_limit
    ELSE direction.total_limit

\* C16: in each direction a download tick takes as total capacity the
\* temporary override handed to it, else the schedule's alternate total when
\* the schedule is enabled, the time of day is inside its window and the
\* alternate is positive, else the configured total.
C16_CapacityChoice ==
    Decided =>
        /\ last.result.download_total_limit
              = ExpectedTotal(config.bandwidth.download, last.temp_download_limit)
        /\ last.result.upload_total_limit
              = ExpectedTotal(config.bandwidth.upload, last.temp_upload_limit)

\* Inside a window over midnight, download takes the alternate while upload
\* takes an override that differs from its alternate.
C16_Witness ==
    /\ Decided
    /\ last.temp_download_limit = None
    /\ config.bandwidth.download.scheduled.start_time
          > config.bandwidth.download.scheduled.end_time
    /\ InWindow(config.bandwidth.download.scheduled, last.now_time)
    /\ last.result.download_total_limit = config.bandwidth.download.scheduled.total_limit
    /\ last.result.download_total_limit # config.bandwidth.download.total_limit
    /\ last.temp_upload_limit # None
    /\ InWindow(config.bandwidth.upload.scheduled, last.now_time)
    /\ last.result.upload_total_limit = last.temp_upload_limit.value
    /\ last.result.upload_total_limit # config.bandwidth.upload.scheduled.total_limit

\* Inside a window within one day, download takes the alternate while upload,
\* whose schedule has no alternate, takes the configured total.
C16_DaytimeReached ==
    /\ Decided
    /\ last.temp_download_limit = None
    /\ last.temp_upload_limit = None
    /\ config.bandwidth.download.scheduled.start_time
          <= config.bandwidth.download.scheduled.end_time
    /\ InWindow(config.bandwidth.download.scheduled, last.now_time)
    /\ last.result.download_total_limit = config.bandwidth.download.scheduled.total_limit
    /\ InWindow(config.bandwidth.upload.scheduled, last.now_time)
    /\ config.bandwidth.upload.scheduled.total_limit = 0
    /\ last.result.upload_total_limit = config.bandwidth.upload.total_limit

\* The last step was a download tick that found an override record.
TickWithOverride == last.kind = "download" /\ last.override # None

Expired == last.at > last.override.expires_at

\* C17: a download tick uses an override record only when the clock it reads
\* has not passed the record's expiry time; a tick that reads a later clock
\* takes the schedule's or the configured capacity in both directions and
\* leaves the record cleared, nobody having cleared it.
C17_OverrideExpires ==
    TickWithOverride =>
        IF Expired
        THEN /\ last.temp_download_limit = None
             /\ last.temp_upload_limit = None
             /\ last.result.download_total_limit = ExpectedTotal(config.bandwidth.download, None)
             /\ last.result.upload_total_limit = ExpectedTotal(config.bandwidth.upload, None)
             /\ temporary_limits = None
        ELSE /\ last.temp_download_limit = last.override.download_mbps
             /\ last.temp_upload_limit = last.override.upload_mbps
             /\ last.result.download_total_limit
                   = ExpectedTotal(config.bandwidth.download, last.override.download_mbps)
             /\ temporary_limits = last.override

\* The first tick after the expiry of an override whose limit is not the
\* capacity the tick falls back to.
C17_Witness ==
    /\ TickWithOverride
    /\ Expired
    /\ temporary_limits = None
    /\ last.override.download_mbps # None
    /\ last.result.download_total_limit # last.override.download_mbps.value
    /\ last.result.download_total_limit = config.bandwidth.download.scheduled.total_limit

\* A tick inside the override's lifetime uses it.
C17_UsedBeforeExpiry ==
    /\ TickWithOverride
    /\ ~Expired
    /\ last.at > last.override.set_at
    /\ last.result.download_total_limit = last.override.download_mbps.value

(***************************************************************************)
(* Properties of the stream loop in an outage.                             *)
(***************************************************************************)
FailedPoll == last.kind = "plex_fail"

Unreachable == Event("service_unreachable", "Plex unreachable")

Recovered == Event("service_unreachable", "Plex recovered")

\* C18, as claimed: in a run of consecutive failed stream polls the "service
\* unreachable" event is emitted on the sixth failure and on no other.
C18_OnceOnTheSixth ==
    FailedPoll => (Unreachable \in last.events <=> plex_consecutive_failures = 6)

\* The event is emitted on the seventh failure and on no other of the run.
C18_OnceOnTheSeventh ==
    FailedPoll =>
        (Unreachable \in last.events <=> plex_consecutive_failures = plex_max_failures + 1)

\* The sixth failure of a run passes without the event.
C18_SixthIsSilent ==
    FailedPoll /\ plex_consecutive_failures = 6 /\ last.events = {}

\* The last step was a successful stream poll that followed failed ones.
SuccessAfterFailure == last.kind = "plex_ok" /\ last.failures >= 1

\* C19, as claimed: a successful stream poll right after one or more
\* consecutive failed polls emits a recovery event.
C19_AsClaimed == SuccessAfterFailure => Recovered \in last.events

\* C19: a successful stream poll emits a recovery event exactly when the run
\* of failed polls before it had emitted the "service unreachable" event;
\* after a shorter run, and after no failure, it emits none.
C19_RecoveryAnswersUnreachable ==
    last.kind = "plex_ok" =>
        /\ Recovered \in last.events <=> last.warned
        /\ ~plex_unreachable_warned
        /\ plex_consecutive_failures = 0

\* A recovery after an outage long enough to have been reported.
C19_Witness ==
    /\ SuccessAfterFailure
    /\ last.warned
    /\ Recovered \in last.events

\* A recovery from a short outage passes unreported.
C19_ShortOutageSilent ==
    /\ SuccessAfterFailure
    /\ ~last.warned
    /\ Recovered \notin last.events

\* The first successful poll of the process.
FirstSnapshot == last.kind = "plex_ok" /\ last.first

\* C20: the first successful snapshot, whatever it holds and however many
\* failed polls came before, emits no event for a session and creates or
\* cancels no reservation; it becomes the baseline of the next diff.
C20_FirstSnapshotIsBaselineOnly ==
    FirstSnapshot =>
        /\ \A e \in last.events : e.type \notin {"stream_started", "stream_ended"}
        /\ tbl = last.before
        /\ tbl = EmptyTable
        /\ cached_streams = good_streams
        /\ ~first_poll

\* A first snapshot with a stream in it after failed polls.
C20_Witness ==
    /\ FirstSnapshot
    /\ last.failures >= 1
    /\ cached_streams # {}

(***************************************************************************)
(* Properties of the control surface.                                      *)
(***************************************************************************)
\* C21, as claimed: a download tick that runs after the control surface has
\* answered "Monitoring paused" and before it answers "Monitoring resumed"
\* polls the clients' statistics and calls set_speed_limits on no adapter.
C21_PausedTickDoesNotActuate ==
    (last.kind = "download" /\ monitoring = "paused") =>
        /\ DOMAIN last.download_stats = Range(config.download_clients)
        /\ last.called = {}

\* A paused tick that polled the statistics and then set the limits of
\* every client, undoing the restore of the pause.
C21_PausedTickActuates ==
    /\ last.kind = "download"
    /\ monitoring = "paused"
    /\ DOMAIN last.download_stats = Range(config.download_clients)
    /\ last.called = Range(config.download_clients)
    /\ \A c \in last.called : daemon[c] # Restored

\* The bandwidth of session s under the configuration that was loaded last.
CostAsReloaded(s) ==
    calculate_stream_bandwidth(s, app_config.bandwidth.streams.overhead_percent)

\* C22, as claimed, for the ticks that start after a reload: a stream tick
\* holds the bandwidth of an ended session as the reloaded configuration
\* counts it, and a download tick counts the streams as the reloaded
\* configuration does.
C22_TicksRunUnderReloaded ==
    /\ StreamTick =>
          \A r \in Inserted(last.after_stopped) :
              \E s \in Stopped : SamePair(r, s) /\ r.bandwidth_mbps = CostAsReloaded(s)
    /\ last.kind = "download" =>
          last.result.total_stream_bandwidth = total_stream_bandwidth(app_config, last.streams)

\* A stream tick after an update of the bandwidth section that holds an ended
\* session at the overhead of the configuration before the update.
C22_StaleStreamTick ==
    /\ StreamTick
    /\ engine_config = app_config
    /\ config # app_config
    /\ \E r \in Inserted(last.after_stopped) :
          \E s \in Stopped :
              /\ SamePair(r, s)
              /\ r.bandwidth_mbps # CostAsReloaded(s)
              /\ r.bandwidth_mbps
                    = calculate_stream_bandwidth(s, config.bandwidth.streams.overhead_percent)

(***************************************************************************)
(* Two consecutive calls of the decision engine on the same inputs.        *)
(***************************************************************************)
\* Streaks from which a quiet client stays active over two more polls, and
\* from which it falls inactive on the second of them.
TwiceStreaks == {0, INACTIVE_BUFFER_INTERVALS - 2}

InitTwice ==
    \E c \in AllocConfigSpace :
        \E streak \in TwiceStreaks :
            Service(c, [x \in Range(c.download_clients) |-> streak],
                    [x \in { y \in Range(c.download_clients) : supports_upload(y) } |->
                        streak])

\* _download_poll_cycle, lines 744-751, on the poll after a Throttle whose
\* inputs have not changed: the engine is called with the same arguments and
\* the streaks the previous call left in it.
Rethrottle(now_time) ==
    LET result == calculate_throttle(engine_config, inactive_counter, upload_inactive_counter,
                                     last.streams, last.download_stats, None,
                                     last.reserved_bandwidth_mbps, last.temp_download_limit,
                                     last.temp_upload_limit, 0, now_time)
    IN /\ last.kind = "throttle"
       /\ inactive_counter' = result.inactive_counter
       /\ upload_inactive_counter' = result.upload_inactive_counter
       /\ last' = [kind |-> "rethrottle", streams |-> last.streams,
                   download_stats |-> last.download_stats,
                   reserved_bandwidth_mbps |-> last.reserved_bandwidth_mbps,
                   temp_download_limit |-> last.temp_download_limit,
                   temp_upload_limit |-> last.temp_upload_limit,
                   first |-> last.result, first_now_time |-> last.now_time,
                   result |-> result,
                   counters |-> <<inactive_counter, upload_inactive_counter>>,
                   now_time |-> now_time]
       /\ UNCHANGED <<service_vars, config, now, plex_due, download_due, reservations, tasks,
                      temporary_limits, client_unreachable_counts,
                      client_unreachable_warned, daemon>>
       /\ UNCHANGED plex_vars
       /\ UNCHANGED actuation_vars

TwiceFirst ==
    \E active_streams \in AllocSnapshots :
        \E status \in AllocStatuses :
            \E reserved \in {0, Mbps(6)} :
                \E temp \in {<<None, None>>, <<None, Some(Mbps(3))>>} :
                    \E now_time \in TimesOfDay :
                        Throttle(active_streams, status, None, reserved,
                                 temp[1], temp[2], now_time)

TwiceSecond == \E now_time \in TimesOfDay : Rethrottle(now_time)

NextTwice == TwiceFirst \/ TwiceSecond

SpecTwice == InitTwice /\ [][NextTwice]_vars

DecidedTwice == last.kind = "rethrottle"

\* Both calls found the same clients active, in each direction.
SameActive(first_counter, second_counter) ==
    \A c \in DOMAIN first_counter :
        (first_counter[c] < INACTIVE_BUFFER_INTERVALS)
            <=> (second_counter[c] < INACTIVE_BUFFER_INTERVALS)

SameStreakClass ==
    /\ SameActive(last.first.inactive_counter, last.result.inactive_counter)
    /\ SameActive(last.first.upload_inactive_counter, last.result.upload_inactive_counter)

\* Both calls fell on the same side of each schedule's window.
SameWindows ==
    /\ InWindow(config.bandwidth.download.scheduled, last.first_now_time)
          <=> InWindow(config.bandwidth.download.scheduled, last.now_time)
    /\ InWindow(config.bandwidth.upload.scheduled, last.first_now_time)
          <=> InWindow(config.bandwidth.upload.scheduled, last.now_time)

\* C23 as stated: two consecutive download ticks on identical inputs (here
\* also at the same time of day) decide identical limits for every client.
C23_AsClaimed ==
    (DecidedTwice /\ last.first_now_time = last.now_time)
        => last.result.decisions = last.first.decisions

\* C23, amended: two consecutive download ticks on identical inputs decide
\* identical limits for every client when, in addition, no client's quiet
\* streak crosses the inactivity buffer between them and both ticks fall on
\* the same side of each schedule's window.
C23_SameDecisionsWithinStreakClass ==
    (DecidedTwice /\ SameStreakClass /\ SameWindows)
        => last.result.decisions = last.first.decisions

\* Two ticks on the same inputs with a quiet client that stays active, and at
\* least two clients deciding positive limits.
C23_Witness ==
    /\ DecidedTwice
    /\ SameStreakClass
    /\ SameWindows
    /\ last.result.decisions = last.first.decisions
    /\ \E c \in DOMAIN last.download_stats :
          /\ last.result.inactive_counter[c] = 2
          /\ last.result.decisions[c].download_limit > 0
    /\ \E c \in DOMAIN last.download_stats : last.result.inactive_counter[c] = 0

\* The second of two ticks on the same inputs, at the same time of day,
\* decides differently because a client fell inactive.
C23_StreakCrossesBuffer ==
    /\ DecidedTwice
    /\ last.first_now_time = last.now_time
    /\ ~SameStreakClass
    /\ last.result.decisions # last.first.decisions

(***************************************************************************)
(* Shutdown (main.py, lifespan after the yield).  Time is in seconds here. *)
(***************************************************************************)
SHUTDOWN_RESTORE_TIMEOUT_SECONDS == 15

\* aiohttp.ClientTimeout(total=2) of every adapter session
CLIENT_TIMEOUT_SECONDS == 2

\* restore_all_speeds(retries=3, retry_delay=1.0)
restore_retries == 3

restore_retry_delay == 1

\* A variant of restore_timed_out for a restore pass awaited without a
\* timeout.
restore_timed_out_never(elapsed) == FALSE

\* asyncio.wait_for(restore_all_speeds(), timeout=...) raises TimeoutError
restore_timed_out(elapsed) == elapsed >= SHUTDOWN_RESTORE_TIMEOUT_SECONDS

\* The HTTP requests one restore attempt can make.  qBittorrent sets two
\* limits through _request, each a request, and on a 403 a login and the
\* request again, after a login when the session is not authenticated;
\* the others make one call.
max_restore_requests(client_id) ==
    IF get_client_type(client_id) = "qbittorrent" THEN 7 ELSE 1

\* restore_client_with_retry, on an exception of restore_speed_limits.
\* SABnzbd's restore_speed_limits logs the exception and returns.
after_restore_exception(client_id, r) ==
    IF get_client_type(client_id) = "sabnzbd" THEN [r EXCEPT !.state = "done"]
    ELSE IF r.attempt < restore_retries
         THEN [r EXCEPT !.state = "sleep", !.waited = 0]
    ELSE [r EXCEPT !.state = "failed"]

\* One second passes for one client of the pass: a request without an answer
\* runs into the session's timeout, a sleep ends in the next attempt.
after_restore_second(client_id, r) ==
    IF r.state = "request"
    THEN IF r.waited + 1 >= CLIENT_TIMEOUT_SECONDS
         THEN after_restore_exception(client_id, r)
         ELSE [r EXCEPT !.waited = r.waited + 1]
    ELSE IF r.state = "sleep"
    THEN IF r.waited + 1 >= restore_retry_delay
         THEN [r EXCEPT !.state = "request", !.attempt = r.attempt + 1, !.request = 1,
                        !.waited = 0]
         ELSE [r EXCEPT !.waited = r.waited + 1]
    ELSE r

restore_pass_returned(clients) ==
    \A c \in DOMAIN clients : clients[c].state \in {"done", "failed"}

\* task_monitor.stop and PollingMonitor.stop (both loops and every
\* reservation timer cancelled, the table kept), then the restore pass starts:
\* gather over restore_client_with_retry of every client.
ShutdownStop ==
    /\ shutdown.phase = "serving"
    /\ shutdown' = [phase |-> "restoring", elapsed |-> 0,
                    clients |-> [c \in Range(config.download_clients) |->
                                    [state |-> "request", attempt |-> 1, request |-> 1,
                                     waited |-> 0]]]
    /\ tasks' = {}
    /\ plex_due' = FALSE
    /\ download_due' = FALSE
    /\ last' = [kind |-> "stop", cancelled |-> tasks]
    /\ UNCHANGED <<limiter, stopping, loops, probe, awaiting, rpc, adapter, monitoring, engine_config, app_config, config, now, reservations,
                   temporary_limits, client_unreachable_counts,
                   client_unreachable_warned, daemon, inactive_counter,
                   upload_inactive_counter>>
    /\ UNCHANGED plex_vars
    /\ UNCHANGED actuation_vars

\* The daemon answers the pending request of one client: the attempt goes on
\* with its next request, or ends well, or the answer raises.
RestoreAnswer(client_id, outcome) ==
    LET r == shutdown.clients[client_id]
        after == CASE outcome = "more" -> [r EXCEPT !.request = r.request + 1, !.waited = 0]
                   [] outcome = "ok" -> [r EXCEPT !.state = "done"]
                   [] OTHER -> after_restore_exception(client_id, r)
    IN /\ shutdown.phase = "restoring"
       /\ ~restore_timed_out(shutdown.elapsed)
       /\ r.state = "request"
       /\ outcome = "more" => r.request < max_restore_requests(client_id)
       /\ shutdown' = [shutdown EXCEPT !.clients[client_id] = after]
       /\ daemon' = IF outcome = "ok" THEN [daemon EXCEPT ![client_id] = Restored]
                    ELSE daemon
       /\ last' = [kind |-> "restore_answer", client |-> client_id, outcome |-> outcome]
       /\ UNCHANGED <<limiter, stopping, loops, probe, awaiting, rpc, adapter, monitoring, engine_config, app_config, config, now, plex_due,
                      download_due, reservations, tasks, temporary_limits,
                      client_unreachable_counts, client_unreachable_warned,
                      inactive_counter, upload_inactive_counter>>
       /\ UNCHANGED plex_vars
       /\ UNCHANGED actuation_vars

\* A second of the restore pass goes by.
RestoreSecond ==
    /\ shutdown.phase = "restoring"
    /\ ~restore_timed_out(shutdown.elapsed)
    /\ ~restore_pass_returned(shutdown.clients)
    /\ shutdown' = [shutdown EXCEPT
                      !.elapsed = shutdown.elapsed + 1,
                      !.clients = [c \in DOMAIN shutdown.clients |->
                                      after_restore_second(c, shutdown.clients[c])]]
    /\ last' = [kind |-> "restore_second"]
    /\ UNCHANGED <<limiter, stopping, loops, probe, awaiting, rpc, adapter, monitoring, engine_config, app_config, config, now, plex_due,
                   download_due, reservations, tasks, temporary_limits,
                   client_unreachable_counts, client_unreachable_warned, daemon,
                   inactive_counter, upload_inactive_counter>>
    /\ UNCHANGED plex_vars
    /\ UNCHANGED actuation_vars

\* The pass returns or wait_for gives up on it; close_all, the notification
\* service and the database are closed.
ShutdownComplete ==
    /\ shutdown.phase = "restoring"
    /\ restore_pass_returned(shutdown.clients) \/ restore_timed_out(shutdown.elapsed)
    /\ shutdown' = [shutdown EXCEPT !.phase = "complete"]
    /\ last' = [kind |-> "shutdown_complete",
                timed_out |-> ~restore_pass_returned(shutdown.clients)]
    /\ UNCHANGED <<limiter, stopping, loops, probe, awaiting, rpc, adapter, monitoring, engine_config, app_config, config, now, plex_due,
                   download_due, reservations, tasks, temporary_limits,
                   client_unreachable_counts, client_unreachable_warned, daemon,
                   inactive_counter, upload_inactive_counter>>
    /\ UNCHANGED plex_vars
    /\ UNCHANGED actuation_vars

ShutdownSnapshots == { {}, {s \in Sessions : s.session_id = "s3"} }

ServePlex ==
    /\ shutdown.phase = "serving"
    /\ \E new_streams \in ShutdownSnapshots :
          \E stopped_order \in Orders(stopped_streams(cached_streams, new_streams)) :
              PlexPollOk(new_streams, stopped_order,
                         CHOOSE o \in Orders(started_streams(cached_streams, new_streams)) : TRUE)

ServeTime == shutdown.phase = "serving" /\ TickTime

Answer ==
    \E client_id \in Range(config.download_clients) :
        \E outcome \in {"more", "ok", "error"} : RestoreAnswer(client_id, outcome)

NextShutdown ==
    ServePlex \/ ServeTime \/ ShutdownStop \/ Answer \/ RestoreSecond \/ ShutdownComplete

\* The event loop runs the shutdown once it has begun: the clock advances
\* and a coroutine that can resume does.
SpecShutdown ==
    /\ InitOverride
    /\ [][NextShutdown]_vars
    /\ WF_vars(RestoreSecond)
    /\ WF_vars(ShutdownComplete)

\* C24: once the loops and the reservation timers are cancelled the restore
\* pass lasts at most SHUTDOWN_RESTORE_TIMEOUT_SECONDS, whatever the daemons
\* answer or fail to answer, and the shutdown completes.
C24_ShutdownCompletes ==
    /\ [](shutdown.phase # "serving" => shutdown.elapsed <= SHUTDOWN_RESTORE_TIMEOUT_SECONDS)
    /\ (shutdown.phase = "restoring") ~> (shutdown.phase = "complete")

\* The shutdown completed on the timeout, with timers cancelled at its start
\* and a client still inside its restore.
C24_Witness ==
    /\ shutdown.phase = "complete"
    /\ last.kind = "shutdown_complete"
    /\ last.timed_out
    /\ shutdown.elapsed = SHUTDOWN_RESTORE_TIMEOUT_SECONDS
    /\ tasks = {}
    /\ tbl.reservations # <<>>
    /\ \E c \in DOMAIN shutdown.clients : shutdown.clients[c].state = "request"

(***************************************************************************)
(* The adapters (clients/*.py) against their daemons.  A speed in Mbps is  *)
(* a fraction [n, d] here; a daemon holds its limits in its own unit, 0    *)
(* for no limit: qBittorrent bytes/s, Transmission KB/s (a disabled limit  *)
(* reads as 0), SABnzbd tenths of MB/s.  1048576 / 8 = 131072 bytes/s,     *)
(* 1000 / 8 = 125 KB/s and 8 / 10 = 4/5 tenths of MB/s make one Mbps.      *)
(***************************************************************************)
FracEq(a, b) == a.n * b.d = b.n * a.d

\* The integral KB/s values of the model that the double arithmetic of
\* int(k * 8 / 1000 * 1000 / 8) falls short of (1000.9999999999999).
DoubleShortfallKbps == {1001}

RECURSIVE Gcd(_, _)
Gcd(a, b) == IF b = 0 THEN a ELSE Gcd(b, a % b)

\* The fraction n/d in lowest terms
Reduced(n, d) == Frac(n \div Gcd(n, d), d \div Gcd(n, d))

\* get_speed_limits of the three adapters, one direction
read_limit(kind, native) ==
    IF native <= 0 THEN Frac(0, 1)
    ELSE CASE kind = "qbittorrent" -> Reduced(native, 131072)
           [] kind = "transmission" -> Reduced(native, 125)
           [] kind = "sabnzbd" -> Reduced(native * 4, 5)

\* f"{download_limit / 8:.1f}": the nearest tenth of n/d, ties to even
Tenths(n, d) ==
    LET q == (n * 10) \div d
        r == (n * 10) % d
    IN IF 2 * r < d THEN q
       ELSE IF 2 * r > d THEN q + 1
       ELSE IF q % 2 = 0 THEN q ELSE q + 1

\* int(n/d * k): the whole part of the product
WholeTimes(fr, k) ==
    LET g == Gcd(k, fr.d)
    IN (fr.n * (k \div g)) \div (fr.d \div g)

\* set_speed_limits of the three adapters, one direction: what the daemon
\* is told for a limit of n/d Mbps
written_limit(kind, mbps) ==
    CASE kind = "qbittorrent" -> WholeTimes(mbps, 131072)
      [] kind = "transmission" ->
            LET kbps == WholeTimes(mbps, 125)
            IN IF kbps * mbps.d = mbps.n * 125 /\ kbps \in DoubleShortfallKbps
               THEN kbps - 1 ELSE kbps
      [] kind = "sabnzbd" -> Tenths(mbps.n, mbps.d * 8)

\* set_speed_limits(download_limit, upload_limit) on the daemon's limits;
\* None leaves a direction alone, SABnzbd has no upload limit.
adapter_set_speed_limits(a, download_limit, upload_limit) ==
    [a EXCEPT !.dl = IF download_limit = None THEN a.dl
                     ELSE written_limit(a.kind, download_limit.value),
              !.ul = IF upload_limit = None \/ a.kind = "sabnzbd" THEN a.ul
                     ELSE written_limit(a.kind, upload_limit.value)]

\* get_stats: the limits it reads (zeros when get_speed_limits swallowed an
\* error) and the originals it keeps
adapter_read(a, limits_read) ==
    IF limits_read
    THEN [download_limit |-> read_limit(a.kind, a.dl), upload_limit |-> read_limit(a.kind, a.ul)]
    ELSE [download_limit |-> Frac(0, 1), upload_limit |-> Frac(0, 1)]

original_after_get_stats(a, limits) ==
    IF a.kind = "sabnzbd"
    THEN IF a.original = None /\ limits.download_limit.n > 0
         THEN Some(limits.download_limit) ELSE a.original
    ELSE IF a.original = None THEN Some(limits) ELSE a.original

\* restore_speed_limits of the three adapters
adapter_restore_speed_limits(a) ==
    CASE a.kind = "sabnzbd" -> [a EXCEPT !.dl = 0]
      [] a.kind = "qbittorrent" ->
            IF a.original = None THEN a
            ELSE adapter_set_speed_limits(a,
                    IF a.original.value.download_limit.n > 0
                    THEN Some(a.original.value.download_limit) ELSE None,
                    IF a.original.value.upload_limit.n > 0
                    THEN Some(a.original.value.upload_limit) ELSE None)
      [] OTHER ->
            IF a.original = None THEN a
            ELSE adapter_set_speed_limits(a, Some(a.original.value.download_limit),
                                          Some(a.original.value.upload_limit))

\* The calls made on one adapter object
MaxAdapterCalls == 4

AdapterFrame ==
    /\ UNCHANGED <<limiter, stopping, loops, probe, awaiting, rpc, monitoring, engine_config, app_config, shutdown, config, now, plex_due,
                   download_due, reservations, tasks, temporary_limits,
                   client_unreachable_counts, client_unreachable_warned, daemon,
                   inactive_counter, upload_inactive_counter>>
    /\ UNCHANGED plex_vars
    /\ UNCHANGED actuation_vars

\* _create_client: a new adapter object, nothing recorded, in front of a
\* daemon with the limits its operator gave it.
AdapterCreate(kind, dl, ul) ==
    /\ adapter.kind = "none"
    /\ adapter' = [kind |-> kind, dl |-> dl, ul |-> ul, original |-> None,
                   first_returned |-> None, calls |-> 0]
    /\ last' = [kind |-> "create"]
    /\ AdapterFrame

\* get_stats: original_download_limit and original_upload_limit of the result
returned_originals(kind, original) ==
    IF kind = "sabnzbd"
    THEN [download_limit |-> IF original = None THEN Frac(0, 1) ELSE original.value]
    ELSE original.value

\* first_returned is history: the originals of the first get_stats that
\* succeeded.
AdapterGetStats(outcome) ==
    LET limits == adapter_read(adapter, outcome = "ok")
        original == original_after_get_stats(adapter, limits)
        returned == returned_originals(adapter.kind, original)
    IN /\ adapter.kind # "none"
       /\ adapter.calls < MaxAdapterCalls
       /\ outcome = "limits_error" => adapter.kind # "sabnzbd"
       /\ adapter' = IF outcome = "error"
                     THEN [adapter EXCEPT !.calls = adapter.calls + 1]
                     ELSE [adapter EXCEPT !.original = original,
                                          !.first_returned =
                                              IF @ = None THEN Some(returned) ELSE @,
                                          !.calls = adapter.calls + 1]
       /\ last' = IF outcome = "error" THEN [kind |-> "get_stats", ok |-> FALSE]
                  ELSE [kind |-> "get_stats", ok |-> TRUE, limits |-> limits,
                        original_before |-> adapter.original,
                        original |-> original, returned |-> returned,
                        nth |-> IF adapter.first_returned = None THEN 1 ELSE 2]
       /\ AdapterFrame

AdapterSetLimits(download_limit, upload_limit, ok) ==
    /\ adapter.kind # "none"
    /\ adapter.calls < MaxAdapterCalls
    /\ adapter' = [(IF ok THEN adapter_set_speed_limits(adapter, download_limit, upload_limit)
                    ELSE adapter) EXCEPT !.calls = adapter.calls + 1]
    /\ last' = [kind |-> "set_speed_limits", ok |-> ok, download_limit |-> download_limit,
                upload_limit |-> upload_limit]
    /\ AdapterFrame

AdapterRestore(ok) ==
    /\ adapter.kind # "none"
    /\ adapter.calls < MaxAdapterCalls
    /\ adapter' = [(IF ok THEN adapter_restore_speed_limits(adapter) ELSE adapter)
                       EXCEPT !.calls = adapter.calls + 1]
    /\ last' = [kind |-> "restore", ok |-> ok, before |-> adapter]
    /\ AdapterFrame

\* The limits a daemon holds when the adapter first meets it
NativeLimits(kind) ==
    CASE kind = "qbittorrent" -> {0, 655360}
      [] kind = "transmission" -> {0, 1000, 1001}
      [] kind = "sabnzbd" -> {0, 5}

\* The limits the monitor sends, in Mbps
SentLimits == {Frac(30, 100), Frac(200, 100), Frac(400, 100)}

Create ==
    \E kind \in {"qbittorrent", "transmission", "sabnzbd"} :
        \E dl \in NativeLimits(kind) :
            \E ul \in (IF kind = "sabnzbd" THEN {0} ELSE NativeLimits(kind)) :
                AdapterCreate(kind, dl, ul)

GetStats == \E outcome \in {"ok", "error", "limits_error"} : AdapterGetStats(outcome)

SetLimits ==
    \E download_limit \in {None} \cup { Some(x) : x \in SentLimits } :
        \E upload_limit \in {None, Some(Frac(0, 1)), Some(Frac(100, 100))} :
            \E ok \in BOOLEAN : AdapterSetLimits(download_limit, upload_limit, ok)

Restore == \E ok \in BOOLEAN : AdapterRestore(ok)

NextAdapter == Create \/ GetStats \/ SetLimits \/ Restore

SpecAdapter == InitOverride /\ [][NextAdapter]_vars

\* The daemon's limits as the adapter kind records them: both directions, or
\* the download limit alone with None for no limit
DaemonLimitsAsRecorded ==
    IF adapter.kind = "sabnzbd"
    THEN IF adapter.dl = 0 THEN None ELSE Some(read_limit("sabnzbd", adapter.dl))
    ELSE Some(adapter_read(adapter, TRUE))

SameLimits(x, y) ==
    IF x = None \/ y = None THEN x = y
    ELSE IF adapter.kind = "sabnzbd" THEN FracEq(x.value, y.value)
    ELSE /\ FracEq(x.value.download_limit, y.value.download_limit)
         /\ FracEq(x.value.upload_limit, y.value.upload_limit)

RestoreSucceeded ==
    /\ last.kind = "restore"
    /\ last.ok
    /\ adapter.kind = "sabnzbd" \/ adapter.original # None

\* C25: after a successful restore the limits of the daemon equal the
\* originals its adapter recorded, unlimited where the original was
\* unlimited, for every adapter kind.
C25_RestoreWritesOriginals ==
    RestoreSucceeded => SameLimits(DaemonLimitsAsRecorded, adapter.original)

\* A qBittorrent daemon whose original was unlimited stays at the limit it
\* was throttled to, after a restore that succeeded.
C25_StaysThrottled ==
    /\ RestoreSucceeded
    /\ adapter.kind = "qbittorrent"
    /\ adapter.original.value.download_limit.n = 0
    /\ adapter.dl > 0

\* C26: every get_stats call that succeeds returns the originals that the
\* first successful call recorded, whatever set_speed_limits calls came in
\* between.
C26_OriginalsRecordedOnce ==
    (last.kind = "get_stats" /\ last.ok)
        => last.returned = adapter.first_returned.value

\* A SABnzbd adapter returns as original a limit that a set_speed_limits
\* call wrote after the first successful get_stats.
C26_OriginalIsOwnThrottle ==
    /\ last.kind = "get_stats"
    /\ last.ok
    /\ adapter.kind = "sabnzbd"
    /\ last.nth = 2
    /\ adapter.first_returned.value.download_limit.n = 0
    /\ last.returned.download_limit.n > 0

\* qBittorrent and Transmission do return the originals of their first
\* successful call.
C26_HoldsForTorrentAdapters ==
    (last.kind = "get_stats" /\ last.ok /\ adapter.kind # "sabnzbd")
        => last.returned = adapter.first_returned.value

(***************************************************************************)
(* The link probe in the download capacity.                                *)
(***************************************************************************)
\* The capacity of calculate_throttle before its probe step
CapacityBeforeProbe ==
    available_download(engine_config, last.result.download_total_limit,
                       last.result.total_stream_bandwidth, 0, None)

ProbeRead == last.kind = "throttle" /\ last.snmp_data # None

\* C27: with a probe reading the download capacity handed to the allocator
\* is max(0, capacity before the probe step - inbound rate of the reading).
C27_ProbeSubtracted ==
    ProbeRead =>
        last.result.available_download
            = Max(0, CapacityBeforeProbe - last.snmp_data.download)

\* A reading of a busy link leaves the capacity as it was.
C27_ReadingIgnored ==
    /\ ProbeRead
    /\ last.snmp_data.download > 0
    /\ CapacityBeforeProbe > last.snmp_data.download
    /\ last.result.available_download = CapacityBeforeProbe

(***************************************************************************)
(* One call of a session-based adapter, request by request.                *)
(***************************************************************************)
\* The requests of one call that the model follows
MaxRequests == 4

\* QBittorrentClient._request after an answer of the daemon.  The first 403
\* to the request leads to a login and the request again; the answer to
\* that one goes to the caller, whose raise_for_status raises on a 403.
qbittorrent_request(r, answer) ==
    CASE r.state = "login" ->
            IF answer = "ok"
            THEN [r EXCEPT !.state = "request", !.authenticated = TRUE,
                           !.retries = IF r.rejected THEN r.retries + 1 ELSE r.retries]
            ELSE [r EXCEPT !.state = "raised"]
      [] r.state = "request" /\ answer = "ok" -> [r EXCEPT !.state = "returned"]
      [] r.state = "request" /\ answer = "auth_expired" /\ ~r.rejected ->
            [r EXCEPT !.state = "login", !.authenticated = FALSE, !.rejected = TRUE]
      [] OTHER -> [r EXCEPT !.state = "raised"]

\* TransmissionClient._rpc_call after an answer of the daemon: a 409 stores
\* the session id of the answer and makes the call again.
transmission_rpc_call(r, answer) ==
    CASE answer = "ok" -> [r EXCEPT !.state = "returned"]
      [] answer = "auth_expired" ->
            [r EXCEPT !.state = "request", !.authenticated = TRUE,
                      !.retries = r.retries + 1]
      [] OTHER -> [r EXCEPT !.state = "raised"]

RpcFrame ==
    /\ UNCHANGED <<limiter, stopping, loops, probe, awaiting, adapter, monitoring, engine_config, app_config, shutdown, config, now,
                   plex_due, download_due, reservations, tasks, temporary_limits,
                   client_unreachable_counts, client_unreachable_warned, daemon,
                   inactive_counter, upload_inactive_counter>>
    /\ UNCHANGED plex_vars
    /\ UNCHANGED actuation_vars

\* __init__: no session yet
RpcCreate(kind) ==
    /\ rpc.kind = "none"
    /\ rpc' = [kind |-> kind, state |-> "idle", authenticated |-> FALSE, calls |-> 0]
    /\ last' = [kind |-> "rpc_create"]
    /\ RpcFrame

\* The adapter starts one call for a method: qBittorrent logs in first when
\* it holds no session (_ensure_authenticated).
RpcCall(method) ==
    /\ rpc.kind # "none"
    /\ rpc.state \in {"idle", "returned", "raised"}
    /\ rpc.calls < MaxAdapterCalls
    /\ rpc' = [kind |-> rpc.kind, method |-> method,
               state |-> IF rpc.kind = "qbittorrent" /\ ~rpc.authenticated
                         THEN "login" ELSE "request",
               authenticated |-> rpc.authenticated, rejected |-> FALSE,
               retries |-> 0, requests |-> 0, calls |-> rpc.calls + 1]
    /\ last' = [kind |-> "rpc_call", method |-> method]
    /\ RpcFrame

\* The daemon answers the request in flight.
RpcAnswer(answer) ==
    /\ rpc.kind # "none"
    /\ rpc.state \in {"login", "request"}
    /\ rpc.requests < MaxRequests
    /\ rpc' = [(IF rpc.kind = "qbittorrent" THEN qbittorrent_request(rpc, answer)
                ELSE transmission_rpc_call(rpc, answer))
                  EXCEPT !.requests = rpc.requests + 1]
    /\ last' = [kind |-> "rpc_answer", answer |-> answer, to |-> rpc.state,
                rejected_before |-> rpc.rejected]
    /\ RpcFrame

NextRpc ==
    \/ \E kind \in {"qbittorrent", "transmission"} : RpcCreate(kind)
    \/ \E method \in {"get_stats", "set_speed_limits"} : RpcCall(method)
    \/ \E answer \in {"ok", "auth_expired", "error"} : RpcAnswer(answer)

SpecRpc == InitOverride /\ [][NextRpc]_vars

InCall == rpc.kind # "none" /\ rpc.state # "idle"

\* C28: within one adapter call the original request is made again at most
\* once after an auth-expired answer, and an auth-expired answer to the
\* second attempt ends the call with the failure raised.
C28_RetryAtMostOnce ==
    InCall =>
        /\ rpc.retries <= 1
        /\ (last.kind = "rpc_answer" /\ last.answer = "auth_expired"
              /\ last.to = "request" /\ rpc.retries >= 1 /\ last.rejected_before)
                => rpc.state = "raised"

\* qBittorrent keeps to one retry.
C28_HoldsForQBittorrent ==
    (InCall /\ rpc.kind = "qbittorrent") =>
        /\ rpc.retries <= 1
        /\ rpc.requests <= 4
        /\ (last.kind = "rpc_answer" /\ last.answer = "auth_expired"
              /\ last.to = "request" /\ last.rejected_before)
                => rpc.state = "raised"

\* A Transmission call that has made its request a third time.
C28_TransmissionKeepsRetrying ==
    /\ InCall
    /\ rpc.kind = "transmission"
    /\ rpc.retries = 2
    /\ rpc.state = "request"

(***************************************************************************)
(* The stream tick where it can be suspended: with a notification channel  *)
(* subscribed to stream_ended, _handle_stopped_stream awaits a request to  *)
(* that channel after each reservation, and the download loop can run.     *)
(***************************************************************************)
InterleaveFrame ==
    /\ UNCHANGED <<limiter, stopping, loops, probe, rpc, adapter, monitoring, engine_config, app_config, shutdown, config,
                   now, download_due>>
    /\ UNCHANGED download_vars
    /\ UNCHANGED actuation_vars

\* _plex_poll_cycle, lines 418-494, up to the first notification of a stopped
\* stream: the snapshot is published (line 436), the first stopped stream of
\* the iteration is handled, the others wait.
PlexPollSuspend(new_streams, stopped_order) ==
    LET first == _handle_stopped_stream(stream_tick_config(config, engine_config), tbl, now,
                                        Head(stopped_order))
    IN /\ plex_due
       /\ ~first_poll
       /\ awaiting.at = "idle"
       /\ stopped_order \in Orders(stopped_streams(cached_streams, new_streams))
       /\ stopped_order # <<>>
       /\ Len(first.tbl.reservations) <= MaxReservations
       /\ plex_due' = FALSE
       /\ plex_consecutive_failures' = 0
       /\ plex_unreachable_warned' = FALSE
       /\ cached_streams' = new_streams
       /\ good_streams' = new_streams
       /\ first_poll' = FALSE
       /\ reservations' = first.tbl.reservations
       /\ tasks' = first.tbl.tasks
       /\ awaiting' = [at |-> "notify", stopped |-> Tail(stopped_order),
                       old_streams |-> cached_streams]
       /\ last' = [kind |-> "plex_suspended", handled |-> Head(stopped_order), before |-> tbl]
       /\ InterleaveFrame

\* The notification returns: the next stopped stream is handled up to its
\* own notification, or, none being left, the started streams are (lines
\* 496-540) and the tick ends.
PlexPollResume(started_order) ==
    LET next == _handle_stopped_stream(stream_tick_config(config, engine_config), tbl, now,
                                       Head(awaiting.stopped))
        started == handle_started(tbl, started_order)
    IN /\ awaiting.at = "notify"
       /\ started_order \in Orders(started_streams(awaiting.old_streams, cached_streams))
       /\ IF awaiting.stopped # <<>>
          THEN /\ Len(next.tbl.reservations) <= MaxReservations
               /\ reservations' = next.tbl.reservations
               /\ tasks' = next.tbl.tasks
               /\ awaiting' = [awaiting EXCEPT !.stopped = Tail(awaiting.stopped)]
               /\ last' = [kind |-> "plex_resumed", handled |-> Head(awaiting.stopped),
                           before |-> tbl]
          ELSE /\ reservations' = started.tbl.reservations
               /\ tasks' = started.tbl.tasks
               /\ awaiting' = [at |-> "idle"]
               /\ last' = [kind |-> "plex_finished", before |-> tbl]
       /\ UNCHANGED <<plex_due>>
       /\ UNCHANGED plex_vars
       /\ InterleaveFrame

InterleaveSnapshots ==
    { {}, {s \in Sessions : s.session_id \in {"s1", "s3"}},
      {s \in Sessions : s.session_id \in {"s2", "s4"}} }

InterleaveFirst ==
    /\ first_poll
    /\ \E new_streams \in InterleaveSnapshots : PlexPollOk(new_streams, <<>>, <<>>)

InterleaveSuspend ==
    \E new_streams \in InterleaveSnapshots :
        \E stopped_order \in Orders(stopped_streams(cached_streams, new_streams)) :
            PlexPollSuspend(new_streams, stopped_order)

InterleaveResume ==
    PlexPollResume(CHOOSE o \in Orders(started_streams(awaiting.old_streams, cached_streams)) :
                       TRUE)

InterleaveTime == awaiting.at = "idle" /\ Tick(MaxTime)

NextInterleave ==
    \/ InterleaveFirst
    \/ InterleaveSuspend
    \/ InterleaveResume
    \/ ReloadDownload
    \/ Timer
    \/ InterleaveTime

SpecInterleave == InitTick /\ [][NextInterleave]_vars

\* The stream counts for bandwidth (a LAN stream only when they are included)
CountedStream(s) == config.plex.include_lan_streams \/ ~s.is_lan

\* The stopped streams of a suspended tick that are still to be handled:
\* absent from the published snapshot, their reservations not yet made
Unreserved ==
    IF awaiting.at = "notify"
    THEN { s \in Range(awaiting.stopped) : CountedStream(s) }
    ELSE {}

\* C29: no download tick runs on a published snapshot from which a stream
\* has departed whose reservation is not in the table yet.
C29_SnapshotAfterReservations ==
    last.kind = "download" => Unreserved = {}

\* A download tick between the reservations of two streams that ended in the
\* same stream tick: it counts neither the second stream nor a reservation
\* for it.
C29_TickBetweenReservations ==
    /\ last.kind = "download"
    /\ Unreserved # {}
    /\ \A s \in Unreserved : s \notin last.streams
    /\ Len(last.before.reservations) = 1
    /\ last.result.total_stream_bandwidth = 0

(***************************************************************************)
(* The upload limit a download tick leaves in an upload-capable daemon.    *)
(***************************************************************************)
\* What the daemon of client c is told for a decided upload limit (in 1/100
\* Mbps): bytes/s for qBittorrent, KB/s for Transmission; 0 lifts the limit.
UploadWritten(c, upload_limit) == written_limit(get_client_type(c), Frac(upload_limit, 100))

\* The clients whose set_speed_limits call of this tick went through
UploadSet ==
    { c \in last.called : supports_upload(c) /\ last.results[c] }

Protecting ==
    \/ filter_streams_for_bandwidth(last.streams, config.plex.include_lan_streams) # {}
    \/ last.before.reservations # <<>>

\* C30: while a counted stream is active or a reservation is live, no
\* download tick sets an upload-capable daemon to unlimited upload, be it by
\* a decided limit of 0 or by the conversion of a positive limit.
C30_NeverUnlimitedUpload ==
    (last.kind = "download" /\ Protecting) =>
        \A c \in UploadSet : UploadWritten(c, last.result.decisions[c].upload_limit) > 0

\* The conversions keep every positive limit positive.
C30_PositiveStaysPositive ==
    last.kind = "download" =>
        \A c \in UploadSet :
            last.result.decisions[c].upload_limit > 0
                => UploadWritten(c, last.result.decisions[c].upload_limit) > 0

\* A stream and a reservation together take the whole upload capacity, and
\* the tick lifts the upload limit of every upload-capable daemon.
C30_UploadUnlimitedUnderStream ==
    /\ last.kind = "download"
    /\ last.result.total_stream_bandwidth > 0
    /\ last.result.total_stream_bandwidth <= last.result.upload_total_limit
    /\ last.before.reservations # <<>>
    /\ UploadSet # {}
    /\ \A c \in UploadSet : daemon[c].upload_limit = Some(0)

(***************************************************************************)
(* The allocator under a safety net wider than the active client's share.  *)
(* DownloadBandwidthConfig.inactive_safety_net_percent is a plain int      *)
(* (config.py 100-103, no ge/le): 60 is accepted next to three clients.    *)
(***************************************************************************)
ConfigOverNet ==
    SpeedarrConfig(ClientIds, EmptyDict, EmptyDict, 60, 100, 5, FALSE,
                   NoSchedule, NoSchedule, 1, 2)

InitOverNet ==
    \E streak \in Streaks :
        Service(ConfigOverNet, [x \in Range(ConfigOverNet.download_clients) |-> streak],
                [x \in { y \in Range(ConfigOverNet.download_clients) : supports_upload(y) } |->
                    streak])

NextOverNet ==
    \E active_streams \in AllocSnapshots :
        \E status \in [Range(config.download_clients) -> {"busy", "idle"}] :
            \E reserved \in {0, Mbps(6)} :
                \E now_time \in TimesOfDay :
                    Throttle(active_streams, status, None, reserved, None, None, now_time)

SpecOverNet == InitOverNet /\ [][NextOverNet]_vars

\* C31: every download limit and every upload limit the allocator emits is
\* greater than or equal to 0, also when the safety net times the number of
\* inactive clients exceeds the whole.
C31_LimitsNonNegative ==
    Decided =>
        \A c \in DOMAIN Decisions :
            /\ Decisions[c].download_limit >= 0
            /\ Decisions[c].upload_limit >= 0

\* One client busy next to two idle ones past their buffer: the busy client
\* is given a negative download limit.
C31_NegativeToSingleActive ==
    /\ Decided
    /\ \E c \in DOMAIN Decisions :
          /\ last.download_stats[c].active
          /\ Decisions[c].download_limit < 0

(***************************************************************************)
(* The stream poll and the HTTP answer to GET /status/sessions.            *)
(* _plex_poll_cycle is suspended in PlexClient._get_sessions until the     *)
(* media server answers; `awaiting` holds the answer the cycle resumes     *)
(* with.                                                                   *)
(***************************************************************************)
\* aiohttp raised ClientConnectorError or a timeout: no status.
ConnectionError == [status |-> 0, sessions |-> {}]

\* The answers of the media server: 200 with the sessions it is playing, an
\* error status without a body, no answer.
Responses ==
    {[status |-> 200, sessions |-> ss] : ss \in OutageSnapshots}
        \cup {[status |-> st, sessions |-> {}] : st \in {401, 404, 500}}
        \cup {ConnectionError}

\* PlexClient._get_sessions: None stands for an exception leaving the method.
_get_sessions(response) ==
    IF response = ConnectionError THEN None
    ELSE IF response.status = 401 THEN Some({})
    ELSE IF response.status = 404 THEN Some({})
    ELSE IF response.status >= 400 THEN None
    ELSE Some(response.sessions)

\* PlexClient.get_active_streams: the sessions, each normalized (the model's
\* sessions are playing and normalized already); get_bandwidth_stats never
\* raises.
get_active_streams(response) == _get_sessions(response)

\* _plex_poll_cycle sends the request.
PlexRequest(response) ==
    /\ plex_due
    /\ awaiting.at # "get_sessions"
    /\ awaiting' = [at |-> "get_sessions", response |-> response]
    /\ UNCHANGED <<limiter, stopping, loops, probe, rpc, adapter, monitoring, engine_config, app_config, shutdown, config,
                   now, plex_due, download_due, reservations, tasks, last>>
    /\ UNCHANGED plex_vars
    /\ UNCHANGED download_vars
    /\ UNCHANGED actuation_vars

\* _plex_poll_cycle resumes with the answer and runs to its end.  The answer
\* stays in `awaiting` until the next request replaces it.
PlexAnswered(stopped_order, started_order) ==
    LET new_streams == get_active_streams(awaiting.response)
    IN /\ awaiting.at = "get_sessions"
       /\ IF new_streams = None
          THEN PlexPollFail(MaxFailures)
          ELSE /\ stopped_order \in Orders(stopped_streams(cached_streams, new_streams.value))
               /\ started_order \in Orders(started_streams(cached_streams, new_streams.value))
               /\ PlexPollOk(new_streams.value, stopped_order, started_order)

\* The next interval begins: the answer of the last one is dropped.
HttpTick ==
    /\ now < MaxFailures
    /\ ~plex_due
    /\ \A t \in tasks : t.wake_at >= now
    /\ now' = now + 1
    /\ plex_due' = TRUE
    /\ download_due' = TRUE
    /\ awaiting' = [at |-> "idle"]
    /\ last' = [kind |-> "tick"]
    /\ UNCHANGED <<limiter, stopping, loops, probe, rpc, adapter, monitoring, engine_config, app_config, shutdown, config,
                   reservations, tasks>>
    /\ UNCHANGED plex_vars
    /\ UNCHANGED download_vars
    /\ UNCHANGED actuation_vars

HttpRequest == \E response \in Responses : PlexRequest(response)

HttpAnswered ==
    /\ awaiting.at = "get_sessions"
    /\ LET new_streams == get_active_streams(awaiting.response)
       IN IF new_streams = None
          THEN PlexAnswered(<<>>, <<>>)
          ELSE \E stopped_order \in Orders(stopped_streams(cached_streams, new_streams.value)) :
                  \E started_order \in Orders(started_streams(cached_streams, new_streams.value)) :
                      PlexAnswered(stopped_order, started_order)

NextHttp == HttpRequest \/ HttpAnswered \/ Timer \/ HttpTick

SpecHttp == InitOutage /\ [][NextHttp]_vars

\* The stream poll has run to its end on the answer in `awaiting`.
Answered(statuses) ==
    /\ awaiting.at = "get_sessions"
    /\ ~plex_due
    /\ last.kind \in {"plex_ok", "plex_fail"}
    /\ awaiting.response.status \in statuses

\* C32: a sessions request answered with HTTP 401 or 404 is handled as a
\* failed poll (the snapshot is kept and the failure counter incremented),
\* never as a successful snapshot without streams.
C32_DeniedIsFailure ==
    Answered({401, 404}) =>
        /\ last.kind = "plex_fail"
        /\ cached_streams = last.old_streams
        /\ plex_consecutive_failures > 0

\* A stream is playing and the server answers 401 or 404: the poll succeeds
\* with no streams, the stream is handled as ended.
C32_DeniedEndsSessions ==
    /\ Answered({401, 404})
    /\ last.kind = "plex_ok"
    /\ last.old_streams # {}
    /\ cached_streams = {}
    /\ plex_consecutive_failures = 0
    /\ reservations # <<>>

\* The other error answers are failures: the snapshot stays.
C32_ServerErrorIsFailure ==
    Answered({0, 500}) =>
        /\ last.kind = "plex_fail"
        /\ cached_streams = last.old_streams
        /\ plex_consecutive_failures > 0

C32_ServerErrorKeepsSnapshot ==
    /\ Answered({0, 500})
    /\ last.old_streams # {}
    /\ cached_streams = last.old_streams

(***************************************************************************)
(* Adapters across client reloads.  ControllerManager.reload_clients       *)
(* closes every adapter and builds new objects in front of the same        *)
(* daemons; `found` is history: the native limits the daemon had when the  *)
(* controller first met it.                                                *)
(***************************************************************************)
\* reload_clients calls followed on one daemon
MaxReloads == 1

\* _initialize_clients at startup
AdapterInstall(kind, dl, ul) ==
    /\ adapter.kind = "none"
    /\ adapter' = [kind |-> kind, dl |-> dl, ul |-> ul, original |-> None,
                   first_returned |-> None, calls |-> 0,
                   found |-> [dl |-> dl, ul |-> ul], reloads |-> 0]
    /\ last' = [kind |-> "create"]
    /\ AdapterFrame

\* reload_clients: close_all, then _initialize_clients builds a new object;
\* the daemon keeps the limits it has.
reload_clients(a) ==
    [a EXCEPT !.original = None, !.first_returned = None, !.reloads = a.reloads + 1]

AdapterReload ==
    /\ adapter.kind # "none"
    /\ adapter.reloads < MaxReloads
    /\ adapter' = reload_clients(adapter)
    /\ last' = [kind |-> "reload_clients", before |-> adapter]
    /\ AdapterFrame

Install ==
    \E kind \in {"qbittorrent", "transmission", "sabnzbd"} :
        \E dl \in NativeLimits(kind) :
            \E ul \in (IF kind = "sabnzbd" THEN {0} ELSE NativeLimits(kind)) :
                AdapterInstall(kind, dl, ul)

NextReloadClients == Install \/ GetStats \/ SetLimits \/ Restore \/ AdapterReload

SpecReloadClients == InitOverride /\ [][NextReloadClients]_vars

\* The limits the daemon had when the controller met it, as the adapter kind
\* records limits.
FoundAsRecorded ==
    LET a == [adapter EXCEPT !.dl = adapter.found.dl, !.ul = adapter.found.ul]
    IN IF a.kind = "sabnzbd"
       THEN IF a.dl = 0 THEN None ELSE Some(read_limit("sabnzbd", a.dl))
       ELSE Some(adapter_read(a, TRUE))

\* C33: the originals an adapter holds are the limits the daemon had before
\* the controller first changed them, never limits the controller wrote,
\* across throttling, client reloads and failed first probes.
C33_OriginalsAreTheDaemonsOwn ==
    (adapter.kind # "none" /\ adapter.original # None)
        => SameLimits(adapter.original, FoundAsRecorded)

\* After a reload the new object records the controller's throttle as the
\* original, and a successful restore leaves the daemon at the throttle.
C33_RestoresOwnThrottle ==
    /\ last.kind = "restore"
    /\ last.ok
    /\ adapter.kind = "transmission"
    /\ adapter.reloads = 1
    /\ adapter.original # None
    /\ adapter.found.dl = 0
    /\ adapter.dl > 0
    /\ adapter.dl = written_limit("transmission", adapter.original.value.download_limit)

\* A first probe whose limits could not be read records "no limits" for a
\* daemon that had limits; the restore removes them.
C33_FailedProbeUnlimits ==
    /\ last.kind = "restore"
    /\ last.ok
    /\ adapter.kind = "transmission"
    /\ adapter.reloads = 0
    /\ adapter.found.dl > 0
    /\ adapter.original # None
    /\ adapter.original.value.download_limit.n = 0
    /\ adapter.dl = 0

(***************************************************************************)
(* The order of a stream tick: stopped sessions, then started ones.        *)
(***************************************************************************)
\* The pairs (user, player) of which the last stream tick found one session
\* gone and another one new.
Handovers ==
    { <<s, n>> \in Stopped \X Started :
        SamePair(s, n) /\ Truthy(n.user_id) /\ Truthy(n.player) }

\* C34: a stream tick processes the ended sessions before the started ones:
\* when a user's session on a player ends and another one of the same user on
\* the same player starts in the same snapshot transition, the reservation
\* made for the ended session is cancelled in that tick, and no reservation
\* of the pair is live after it.
C34_HandoverLeavesNoReservation ==
    StreamTick =>
        \A h \in Handovers :
            /\ \A r \in Inserted(last.after_stopped) :
                  SamePair(r, h[1]) => r \notin Range(reservations)
            /\ \A r \in Range(reservations) : ~SamePair(r, h[2])
            /\ \A t \in tasks : ~(t.id[1] = h[2].user_id /\ t.id[2] = h[2].player)

\* alice's episode on the roku ends and her next one starts there: the tick
\* made a reservation for the ended session and cancelled it.
C34_Witness ==
    /\ StreamTick
    /\ \E h \in Handovers :
          /\ Counted(h[1])
          /\ DelayFor(h[1]) > 0
          /\ \E r \in Inserted(last.after_stopped) : Holds(r, h[1])
          /\ \A r \in Range(reservations) : ~SamePair(r, h[2])

(***************************************************************************)
(* The calls of a download tick against the limits the daemons hold.       *)
(***************************************************************************)
\* A successful set_speed_limits call with this decision would leave the
\* limits of client c as they are.
AlreadyAt(c, limits, decision) ==
    set_speed_limits(c, limits, decision.download_limit, decision.upload_limit, "ok") = limits

DownloadTickStep == download_due /\ last'.kind = "download"

\* C35: a download tick calls set_speed_limits on a client only if the limit
\* it computed differs from the limit the client holds at that tick; a client
\* whose limits already equal the decision gets no call.
C35_CallsOnlyOnChange ==
    [][DownloadTickStep =>
          \A c \in last'.called : ~AlreadyAt(c, daemon[c], last'.result.decisions[c])]_vars

\* Every client with a decision is called, whatever limits it holds.
C35_EveryDecisionIsSent ==
    last.kind = "download" => last.called = DOMAIN last.result.decisions

\* A second tick under the same conditions as the one before it: every
\* client is called again with the limits it was given an interval ago.
C35_CalledAgain ==
    /\ last.kind = "download"
    /\ last.at > 0
    /\ last.called # {}
    /\ \A c \in last.called : last.outcome[c] = "ok"

(***************************************************************************)
(* The two failure trackers side by side: in every interval the stream     *)
(* poll and the get_stats of one client meet the same outcome.             *)
(***************************************************************************)
\* The client whose outcomes follow those of the media server
Tracked == "qbittorrent_1"

TrackPlexOk ==
    \E new_streams \in OutageSnapshots :
        \E stopped_order \in Orders(stopped_streams(cached_streams, new_streams)) :
            PlexPollOk(new_streams, stopped_order,
                       CHOOSE o \in Orders(started_streams(cached_streams, new_streams)) : TRUE)

TrackPlexFail == PlexPollFail(MaxFailures)

\* The download tick of the interval, after the stream poll: the tracked
\* client's get_stats fails exactly when the stream poll failed.
TrackDownload ==
    /\ last.kind \in {"plex_ok", "plex_fail"}
    /\ DownloadPollCycle([c \in Range(config.download_clients) |->
                             IF c = Tracked /\ last.kind = "plex_fail" THEN "error" ELSE "busy"],
                         [c \in Range(config.download_clients) |-> "ok"], HHMM(12, 0))

TrackTime == ~plex_due /\ ~download_due /\ Tick(MaxFailures)

NextTrackers == TrackPlexOk \/ TrackPlexFail \/ TrackDownload \/ Timer \/ TrackTime

SpecTrackers == InitOutage /\ [][NextTrackers]_vars

\* Both loops have run in this interval.
BothTracked == last.kind = "download" /\ ~plex_due

\* C36: given the same outcomes tick by tick, the tracker of a download
\* client and the tracker of the stream source emit their unreachable event
\* and their recovery event on the same ticks: after each tick both have
\* warned or neither has.
C36_TrackersAgree ==
    BothTracked =>
        /\ Get(client_unreachable_warned, Tracked, FALSE) = plex_unreachable_warned
        /\ (Event("service_unreachable", Tracked) \in last.events)
               => plex_unreachable_warned

\* After the same six failures the client's tracker has sent its event, the
\* stream source's has not.
C36_ClientWarnsFirst ==
    /\ BothTracked
    /\ plex_consecutive_failures = plex_max_failures
    /\ Get(client_unreachable_counts, Tracked, 0) = plex_max_failures
    /\ Event("service_unreachable", Tracked) \in last.events
    /\ ~plex_unreachable_warned

\* Both trackers have warned one failure later, and both recover together.
C36_BothWarned ==
    /\ BothTracked
    /\ plex_consecutive_failures = plex_max_failures + 1
    /\ plex_unreachable_warned
    /\ Get(client_unreachable_warned, Tracked, FALSE)

(***************************************************************************)
(* snmp_monitor.py: SNMPMonitor.get_bandwidth on the interface counters.   *)
(* Octet counts run to 2^64: a count is <<a, b, c>> for a*2^60 + b*2^30 + c *)
(* with b, c < 2^30.  The download loop calls get_bandwidth once per        *)
(* polling interval.                                                       *)
(***************************************************************************)
MAX_REASONABLE_MBPS == 10000

\* SystemConfig.update_frequency, in seconds
update_frequency == 5

Limb == 2^30

Octets(n) == <<0, n \div Limb, n % Limb>>

Less(x, y) ==
    \/ x[1] < y[1]
    \/ x[1] = y[1] /\ x[2] < y[2]
    \/ x[1] = y[1] /\ x[2] = y[2] /\ x[3] < y[3]

\* x + y
Plus(x, y) ==
    LET c == x[3] + y[3]
        b == x[2] + y[2] + (IF c >= Limb THEN 1 ELSE 0)
        a == x[1] + y[1] + (IF b >= Limb THEN 1 ELSE 0)
    IN <<a, b % Limb, c % Limb>>

\* x - y for x >= y
Minus(x, y) ==
    LET c == x[3] - y[3]
        b == x[2] - y[2] - (IF c < 0 THEN 1 ELSE 0)
        a == x[1] - y[1] - (IF b < 0 THEN 1 ELSE 0)
    IN <<a, (b + Limb) % Limb, (c + Limb) % Limb>>

RECURSIVE Times(_, _)
Times(x, k) == IF k = 0 THEN <<0, 0, 0>> ELSE Plus(x, Times(x, k - 1))

\* max_counter, lines 403: 2**64 or 2**32
max_counter(use_64bit) == IF use_64bit THEN <<16, 0, 0>> ELSE <<0, 4, 0>>

\* Lines 399-407: the delta of a counter, a negative one taken as a wrap
counter_delta(octets, last_octets, use_64bit) ==
    IF Less(octets, last_octets)
    THEN Plus(octets, Minus(max_counter(use_64bit), last_octets))
    ELSE Minus(octets, last_octets)

\* Line 416: the rate of `delta` octets in one interval is above
\* MAX_REASONABLE_MBPS (a rate is never negative: time_diff and both deltas
\* are not)
unreasonable(delta) ==
    Less(Times(Octets(MAX_REASONABLE_MBPS * 125000), update_frequency), delta)

\* Lines 410-411 and 434-435: round(delta / time_diff * 8 / 1_000_000, 2) in
\* 1/10000 Mbps, for a delta that is not unreasonable
rate_mbps(delta) ==
    LET per_hundredth == update_frequency * 1250
        total == delta[2] * (Limb % per_hundredth) + delta[3]
        q == delta[2] * (Limb \div per_hundredth) + total \div per_hundredth
        r == total % per_hundredth
    IN 100 * (IF 2 * r < per_hundredth THEN q
              ELSE IF 2 * r > per_hundredth THEN q + 1
              ELSE IF q % 2 = 0 THEN q ELSE q + 1)

\* What the device answers to the query of the 64-bit counters (hc) and of
\* the 32-bit ones (std): None, or the octets in and out.
Reading(in_octets, out_octets) == [in_octets |-> in_octets, out_octets |-> out_octets]

\* A variant of the rejection that discards the baseline.
after_rejection_discarding(p, reading) ==
    [use_64bit |-> p.use_64bit, baseline |-> None, rejected |-> TRUE]

\* Lines 417-425: the monitor after a rejected computation
after_rejection(p, reading) ==
    [use_64bit |-> p.use_64bit, baseline |-> Some(reading), rejected |-> TRUE]

\* get_bandwidth on monitor p: the monitor after the call and what the call
\* returns.
probe_get_bandwidth(p, answer) ==
    LET fallback == answer.hc = None /\ p.use_64bit
        use_64bit == p.use_64bit /\ ~fallback
        baseline == IF fallback THEN None ELSE p.baseline
        reading == IF use_64bit THEN answer.hc ELSE answer.std
    IN IF answer.raises \/ (p.use_64bit /\ fallback /\ answer.std_raises)
       THEN [probe |-> [use_64bit |-> IF answer.raises THEN p.use_64bit ELSE FALSE,
                        baseline |-> None, rejected |-> FALSE],
             returned |-> None]
       ELSE IF reading = None
       THEN [probe |-> [use_64bit |-> use_64bit, baseline |-> None, rejected |-> FALSE],
             returned |-> None]
       ELSE IF baseline = None
       THEN [probe |-> [use_64bit |-> use_64bit, baseline |-> Some(reading),
                        rejected |-> FALSE],
             returned |-> None]
       ELSE LET in_delta == counter_delta(reading.in_octets, baseline.value.in_octets,
                                          use_64bit)
                out_delta == counter_delta(reading.out_octets, baseline.value.out_octets,
                                           use_64bit)
            IN IF unreasonable(in_delta) \/ unreasonable(out_delta)
               THEN [probe |-> after_rejection([p EXCEPT !.use_64bit = use_64bit], reading),
                     returned |-> None]
               ELSE [probe |-> [use_64bit |-> use_64bit, baseline |-> Some(reading),
                                rejected |-> FALSE],
                     returned |-> Some([download |-> rate_mbps(in_delta),
                                        upload |-> rate_mbps(out_delta)])]

\* The SNMP step of a download cycle (polling_monitor.py 693-712)
ProbePoll(answer) ==
    LET got == probe_get_bandwidth(probe, answer)
    IN /\ probe' = got.probe
       /\ last' = [kind |-> "get_bandwidth", answer |-> answer, before |-> probe,
                   returned |-> got.returned]
       /\ UNCHANGED <<limiter, stopping, loops, awaiting, rpc, adapter, monitoring, engine_config, app_config, shutdown,
                      config, now, plex_due, download_due, reservations, tasks>>
       /\ UNCHANGED plex_vars
       /\ UNCHANGED download_vars
       /\ UNCHANGED actuation_vars

\* Octet counts of the inbound counter: a device just restarted, counts
\* 625 MB apart (1000 Mbps over an interval), and one 7.5 GB on (12 Gbps)
InOctets ==
    {Octets(0), Octets(625000000), Octets(1250000000), <<0, 7, 0>>, <<15, 0, 0>>}

OutOctets == {Octets(0), Octets(62500000)}

Answers ==
    LET readings == { Reading(i, o) : i \in InOctets, o \in OutOctets }
        narrow == { r \in readings : Less(r.in_octets, max_counter(FALSE)) }
    IN { [hc |-> r, std |-> None, raises |-> FALSE, std_raises |-> FALSE] : r \in readings }
         \cup { [hc |-> None, std |-> r, raises |-> FALSE, std_raises |-> FALSE] :
                  r \in narrow \cup {None} }
         \cup { [hc |-> None, std |-> None, raises |-> x, std_raises |-> ~x] : x \in BOOLEAN }

Probe == \E answer \in Answers : ProbePoll(answer)

NextProbe == Probe

SpecProbe == InitTick /\ [][NextProbe]_vars

\* The call before the last one rejected its rates, and the last one read
\* the counters it asked for.
AfterRejection ==
    /\ last.kind = "get_bandwidth"
    /\ last.before.rejected
    /\ (IF last.before.use_64bit THEN last.answer.hc ELSE last.answer.std) # None
    /\ ~last.answer.raises

\* C37, as claimed: a rejected computation discards the baseline and returns
\* "no data", so the next call only establishes a baseline and returns "no
\* data" too.
C37_RejectionDiscardsBaseline ==
    /\ probe.rejected => probe.baseline = None
    /\ AfterRejection => last.returned = None

\* C37, amended: a computation whose rate is above 10 Gb/s returns "no data"
\* and makes the rejected reading the baseline; the next call that reads the
\* counters computes its rates against that reading.
C37_RejectionResetsBaseline ==
    /\ (last.kind = "get_bandwidth" /\ probe.rejected) =>
          /\ last.returned = None
          /\ probe.baseline = Some(IF probe.use_64bit THEN last.answer.hc ELSE last.answer.std)
    /\ AfterRejection =>
          /\ last.before.baseline # None
          /\ LET reading == IF last.before.use_64bit THEN last.answer.hc ELSE last.answer.std
                 in_delta == counter_delta(reading.in_octets,
                                           last.before.baseline.value.in_octets,
                                           last.before.use_64bit)
                 out_delta == counter_delta(reading.out_octets,
                                            last.before.baseline.value.out_octets,
                                            last.before.use_64bit)
             IN (last.returned = None) <=> (unreasonable(in_delta) \/ unreasonable(out_delta))

\* A device restart is rejected (the count falls, the delta wraps to nearly
\* 2^64), and the call after it returns 1000 Mbps measured from the rejected
\* reading.
C37_Witness ==
    /\ AfterRejection
    /\ last.before.baseline = Some(Reading(Octets(0), Octets(0)))
    /\ last.returned = Some([download |-> Mbps(1000), upload |-> Mbps(100)])

(***************************************************************************)
(* _plex_poll_loop and _download_poll_loop: a tick that raises.            *)
(***************************************************************************)
Loops == {"plex", "download"}

\* Python's exception classes and their base class (asyncio.CancelledError
\* derives from BaseException since Python 3.8).
BaseOf ==
    [RuntimeError |-> "Exception", TimeoutError |-> "Exception",
     Exception |-> "BaseException", KeyboardInterrupt |-> "BaseException",
     SystemExit |-> "BaseException", CancelledError |-> "BaseException"]

RECURSIVE issubclass(_, _)
issubclass(type, class) ==
    \/ type = class
    \/ type \in DOMAIN BaseOf /\ issubclass(BaseOf[type], class)

\* A variant of the loops' handler that catches nothing.
loop_catches_nothing(type) == FALSE

\* "except Exception as e:" of both loops (lines 409 and 650)
loop_catches(type) == issubclass(type, "Exception")

Due(loop) == IF loop = "plex" THEN plex_due ELSE download_due

\* The tick of `loop` raises `type` outside the try blocks of its own that
\* turn a failure into a result, before it has written anything.  A caught
\* exception is logged and the loop goes to its sleep; any other ends the
\* task.
TickRaises(loop, type) ==
    /\ loops[loop] = "running"
    /\ Due(loop)
    /\ plex_due' = (plex_due /\ loop # "plex")
    /\ download_due' = (download_due /\ loop # "download")
    /\ loops' = IF loop_catches(type) THEN loops ELSE [loops EXCEPT ![loop] = "ended"]
    /\ last' = [kind |-> "raised", loop |-> loop, type |-> type]
    /\ UNCHANGED <<limiter, stopping, probe, awaiting, rpc, adapter, monitoring, engine_config, app_config,
                   shutdown, config, now, reservations, tasks>>
    /\ UNCHANGED plex_vars
    /\ UNCHANGED download_vars
    /\ UNCHANGED actuation_vars

\* Polling intervals the loops are followed for
MaxLoopTime == 2

\* asyncio.sleep(update_frequency) of the loops that still run is over.
LoopSleepOver ==
    /\ now < MaxLoopTime
    /\ \A t \in tasks : t.wake_at >= now
    /\ now' = now + 1
    /\ plex_due' = (loops.plex = "running")
    /\ download_due' = (loops.download = "running")
    /\ last' = [kind |-> "tick"]
    /\ UNCHANGED <<limiter, stopping, loops, probe, awaiting, rpc, adapter, monitoring, engine_config, app_config,
                   shutdown, config, reservations, tasks>>
    /\ UNCHANGED plex_vars
    /\ UNCHANGED download_vars
    /\ UNCHANGED actuation_vars

ExceptionTypes ==
    {"RuntimeError", "TimeoutError", "KeyboardInterrupt", "SystemExit", "CancelledError"}

LoopRaises == \E loop \in Loops : \E type \in ExceptionTypes : TickRaises(loop, type)

LoopPlexOk == loops.plex = "running" /\ OutagePlexOk

LoopPlexFail == loops.plex = "running" /\ PlexPollFail(MaxLoopTime + 1)

LoopDownload ==
    /\ loops.download = "running"
    /\ \E activity \in {"busy", "idle"} :
          DownloadPollCycle([c \in Range(config.download_clients) |-> activity],
                            [c \in Range(config.download_clients) |-> "ok"], HHMM(12, 0))

NextLoops ==
    LoopPlexOk \/ LoopPlexFail \/ LoopDownload \/ LoopRaises \/ Timer \/ LoopSleepOver

\* The event loop runs a timer whose sleep is over, and the sleeps end.
SpecLoops ==
    InitTick /\ [][NextLoops]_vars /\ WF_vars(Timer) /\ WF_vars(LoopSleepOver)

\* The exception of the last step is an Exception.
Ordinary == issubclass(last.type, "Exception")

Raised(loop) == last.kind = "raised" /\ last.loop = loop

\* C38, as claimed: an exception of any type other than cancellation raised
\* in a tick leaves the loop running.
C38_AnyExceptionSurvived ==
    \A loop \in Loops :
        (Raised(loop) /\ last.type # "CancelledError") => loops[loop] = "running"

\* C38, amended: an exception that derives from Exception raised in a tick
\* does not end the loop: the loop sleeps, and once the interval is over its
\* next tick is due.
C38_ExceptionSurvived ==
    /\ [](\A loop \in Loops :
            (Raised(loop) /\ Ordinary) =>
                loops[loop] = "running" /\ ~Due(loop))
    /\ (Raised("plex") /\ Ordinary /\ now < MaxLoopTime) ~> plex_due
    /\ (Raised("download") /\ Ordinary /\ now < MaxLoopTime) ~> download_due

\* The download tick raised TimeoutError after the stream loop had ended on
\* a KeyboardInterrupt: the download loop is in its sleep.
C38_Witness ==
    /\ Raised("download")
    /\ last.type = "TimeoutError"
    /\ loops.download = "running"
    /\ loops.plex = "ended"
    /\ ~download_due
    /\ now < MaxLoopTime

\* KeyboardInterrupt and SystemExit end the loop's task.
C38_LoopEnded ==
    /\ Raised("plex")
    /\ last.type = "SystemExit"
    /\ loops.plex = "ended"

(***************************************************************************)
(* PollingMonitor.stop against the reservation timers.  Each coroutine     *)
(* advances from one await to the next; _reservations_lock is an           *)
(* asyncio.Lock.  `timers` gives the state of each                         *)
(* _clear_specific_reservation task, `list` the ids in _reservations.      *)
(***************************************************************************)
\* Reservation timers created before the monitor is stopped
MaxTimers == 3

StopFrame ==
    /\ UNCHANGED <<limiter, loops, probe, awaiting, rpc, adapter, monitoring, engine_config, app_config,
                   shutdown, config, now, plex_due, download_due, reservations, tasks,
                   temporary_limits, client_unreachable_counts, client_unreachable_warned,
                   daemon, inactive_counter, upload_inactive_counter>>
    /\ UNCHANGED plex_vars
    /\ UNCHANGED actuation_vars

Without(list, n) == SelectSeq(list, LAMBDA x : x # n)

\* A variant of Task.cancel that has no effect.
task_cancel_ignored(state) == state

\* Task.cancel() on a timer task: a task that is suspended (in its sleep, in
\* the lock's queue, or with its wake-up pending) gets CancelledError thrown
\* in at its next step; a task that is done is left alone.
task_cancel(state) ==
    IF state \in {"sleeping", "woken", "acquiring"} THEN "cancelling" ELSE state

\* schedule_restoration (lines 217-224): the task is created and the
\* reservation appended; nothing holds the lock across an await while the
\* monitor serves, so the append does not wait.
TimerSchedule ==
    LET n == Len(stopping.timers) + 1
    IN /\ stopping.pc = "serving"
       /\ n <= MaxTimers
       /\ stopping' = [stopping EXCEPT !.timers = Append(@, "sleeping"),
                                       !.list = Append(@, n)]
       /\ last' = [kind |-> "schedule_restoration", id |-> n]
       /\ StopFrame

\* asyncio.sleep(delay_seconds) of timer n is over.
TimerWake(n) ==
    /\ stopping.timers[n] = "sleeping"
    /\ stopping' = [stopping EXCEPT !.timers[n] = "woken"]
    /\ last' = [kind |-> "timer_wake", id |-> n]
    /\ StopFrame

\* _clear_specific_reservation after its sleep (lines 385-390): with the
\* lock free it pops its reservation and returns, otherwise it queues in
\* Lock.acquire and goes on from there once the lock is handed to it.
TimerRun(n) ==
    /\ \/ stopping.timers[n] = "woken"
       \/ stopping.timers[n] = "acquiring" /\ stopping.lock = "free"
    /\ stopping' =
          IF stopping.lock = "free"
          THEN [stopping EXCEPT !.timers[n] = "finished", !.list = Without(@, n)]
          ELSE [stopping EXCEPT !.timers[n] = "acquiring", !.waited = @ \cup {n}]
    /\ last' = [kind |-> "timer_run", id |-> n]
    /\ StopFrame

\* CancelledError is thrown into timer n: lines 397-399 log and re-raise.
TimerCancelled(n) ==
    /\ stopping.timers[n] = "cancelling"
    /\ stopping' = [stopping EXCEPT !.timers[n] = "cancelled"]
    /\ last' = [kind |-> "timer_cancelled", id |-> n]
    /\ StopFrame

\* cancel_restoration (from the stream loop) and clear_reservation_by_id
\* (from the API, which also answers once stop has returned) on reservation
\* n: under the lock, cancel the task without awaiting it, drop the
\* reservation.
CancelReservation(n) ==
    /\ stopping.pc \in {"serving", "stopped"}
    /\ stopping.lock = "free"
    /\ \E i \in DOMAIN stopping.list : stopping.list[i] = n
    /\ stopping' = [stopping EXCEPT !.timers[n] = task_cancel(@), !.list = Without(@, n)]
    /\ last' = [kind |-> "cancel_restoration", id |-> n]
    /\ StopFrame

\* stop, lines 106-119: _running = False, both loops cancelled and awaited,
\* then the lock is taken.
StopLock ==
    /\ stopping.pc = "serving"
    /\ stopping.lock = "free"
    /\ stopping' = [stopping EXCEPT !.pc = "iterating", !.lock = "stop", !.idx = 1]
    /\ last' = [kind |-> "stop_lock"]
    /\ StopFrame

\* Lines 121-124: reservation['task'].cancel(), then await it.
StopCancel ==
    /\ stopping.pc = "iterating"
    /\ stopping.idx <= Len(stopping.list)
    /\ stopping' = [stopping EXCEPT !.timers[stopping.list[stopping.idx]] = task_cancel(@),
                                    !.pc = "awaiting"]
    /\ last' = [kind |-> "stop_cancel", id |-> stopping.list[stopping.idx]]
    /\ StopFrame

\* Lines 124-126: the awaited task is done; CancelledError is passed over.
StopResume ==
    /\ stopping.pc = "awaiting"
    /\ stopping.timers[stopping.list[stopping.idx]] \in {"finished", "cancelled"}
    /\ stopping' = [stopping EXCEPT !.pc = "iterating", !.idx = @ + 1]
    /\ last' = [kind |-> "stop_resume"]
    /\ StopFrame

\* Lines 120-128: the loop over the reservations is over, the lock is
\* released, the stream source closed.
StopRelease ==
    /\ stopping.pc = "iterating"
    /\ stopping.idx > Len(stopping.list)
    /\ stopping' = [stopping EXCEPT !.pc = "stopped", !.lock = "free"]
    /\ last' = [kind |-> "stopped"]
    /\ StopFrame

Wake == \E n \in DOMAIN stopping.timers : TimerWake(n)

Run == \E n \in DOMAIN stopping.timers : TimerRun(n)

Cancelled == \E n \in DOMAIN stopping.timers : TimerCancelled(n)

CancelOne == \E n \in DOMAIN stopping.timers : CancelReservation(n)

NextStop ==
    \/ TimerSchedule \/ Wake \/ Run \/ Cancelled \/ CancelOne
    \/ StopLock \/ StopCancel \/ StopResume \/ StopRelease

\* The event loop runs every coroutine that is ready; sleeps may last.
SpecStop ==
    /\ InitTick /\ [][NextStop]_vars
    /\ WF_vars(Run) /\ WF_vars(Cancelled)
    /\ WF_vars(StopCancel) /\ WF_vars(StopResume) /\ WF_vars(StopRelease)

\* The timers that can still clear a reservation
LiveTimers ==
    { n \in DOMAIN stopping.timers : stopping.timers[n] \in {"sleeping", "woken", "acquiring"} }

\* C39: stop always terminates and leaves no reservation timer running:
\* cancelling and awaiting the timers under the reservations lock does not
\* deadlock with a timer whose sleep is over and that waits for the lock,
\* nor with a cancellation in progress.
C39_StopTerminates ==
    /\ (stopping.pc = "iterating") ~> (stopping.pc = "stopped")
    /\ [](stopping.pc = "stopped" => (LiveTimers = {} /\ stopping.lock = "free"))

\* stop has returned after it cancelled a timer that was waiting for the
\* lock and one that an earlier cancel_restoration had already cancelled.
C39_Witness ==
    /\ stopping.pc = "stopped"
    /\ stopping.waited # {}
    /\ \A n \in stopping.waited : stopping.timers[n] = "cancelled"
    /\ \E n \in DOMAIN stopping.timers :
          /\ stopping.timers[n] = "cancelled"
          /\ \A i \in DOMAIN stopping.list : stopping.list[i] # n

(***************************************************************************)
(* The login rate limiter, for one client address.  Time is in seconds.    *)
(* `pending` counts the logins that is_allowed admitted and that wait for  *)
(* the database, by whether their credentials are good.  `admitted` (the   *)
(* times of the attempts admitted within the last window), `since` (those  *)
(* of them admitted after the last clear), `hit` (when the limit was last  *)
(* hit, while that is less than block_seconds ago) and `lifted` (whether   *)
(* the limiter was cleared after that) are history kept for the            *)
(* properties; the limiter does not read them.                             *)
(***************************************************************************)
LOGIN_RATE_LIMIT_MAX_ATTEMPTS == 5

LOGIN_RATE_LIMIT_WINDOW_SECONDS == 60

LOGIN_RATE_LIMIT_BLOCK_SECONDS == 300

\* The clock stops here
MaxClock == 360

\* Logins admitted and not yet answered
MaxPending == 2

\* How far the clock moves between two events
ClockSteps == {30, LOGIN_RATE_LIMIT_WINDOW_SECONDS, LOGIN_RATE_LIMIT_BLOCK_SECONDS}

LimiterFrame ==
    /\ UNCHANGED <<stopping, loops, probe, awaiting, rpc, adapter, monitoring, engine_config,
                   app_config, shutdown, config, now, plex_due, download_due, reservations,
                   tasks, temporary_limits, client_unreachable_counts,
                   client_unreachable_warned, daemon, inactive_counter, upload_inactive_counter>>
    /\ UNCHANGED plex_vars
    /\ UNCHANGED actuation_vars

Within(timestamps, t) ==
    SelectSeq(timestamps, LAMBDA ts : ts > t - LOGIN_RATE_LIMIT_WINDOW_SECONDS)

\* The history takes one admitted attempt more than the limiter may admit
\* within a window, and no more.
Noted(timestamps, t) ==
    IF Len(timestamps) > LOGIN_RATE_LIMIT_MAX_ATTEMPTS THEN timestamps
    ELSE Append(timestamps, t)

\* A variant of is_allowed that blocks one attempt late.
is_allowed_one_late(l, t) ==
    LET kept == IF l.requests # None THEN Within(l.requests.value, t) ELSE <<>>
    IN IF l.blocked # None /\ t < l.blocked.value
       THEN [limiter |-> l, allowed |-> FALSE, retry_after |-> l.blocked.value - t,
             limit_hit |-> FALSE]
       ELSE IF Len(kept) > LOGIN_RATE_LIMIT_MAX_ATTEMPTS
            THEN [limiter |-> [l EXCEPT !.requests = Some(kept),
                                        !.blocked = Some(t + LOGIN_RATE_LIMIT_BLOCK_SECONDS)],
                  allowed |-> FALSE, retry_after |-> LOGIN_RATE_LIMIT_BLOCK_SECONDS,
                  limit_hit |-> TRUE]
            ELSE [limiter |-> [l EXCEPT !.requests = Some(Append(kept, t)),
                                        !.blocked = None],
                  allowed |-> TRUE, retry_after |-> 0, limit_hit |-> FALSE]

\* RateLimiter.is_allowed at time t, all of it under the limiter's lock
is_allowed(l, t) ==
    LET kept == IF l.requests # None THEN Within(l.requests.value, t) ELSE <<>>
    IN IF l.blocked # None /\ t < l.blocked.value
       THEN [limiter |-> l, allowed |-> FALSE, retry_after |-> l.blocked.value - t,
             limit_hit |-> FALSE]
       ELSE IF Len(kept) >= LOGIN_RATE_LIMIT_MAX_ATTEMPTS
            THEN [limiter |-> [l EXCEPT !.requests = Some(kept),
                                        !.blocked = Some(t + LOGIN_RATE_LIMIT_BLOCK_SECONDS)],
                  allowed |-> FALSE, retry_after |-> LOGIN_RATE_LIMIT_BLOCK_SECONDS,
                  limit_hit |-> TRUE]
            ELSE [limiter |-> [l EXCEPT !.requests = Some(Append(kept, t)),
                                        !.blocked = None],
                  allowed |-> TRUE, retry_after |-> 0, limit_hit |-> FALSE]

\* RateLimiter.clear
clear(l) == [l EXCEPT !.requests = None, !.blocked = None]

\* login up to its database query: 429 when the limiter refuses, otherwise
\* the request waits for the database.
LoginAttempt(good) ==
    LET t == limiter.clock
        answer == is_allowed(limiter, t)
        kind == IF good THEN "good" ELSE "bad"
    IN /\ limiter.pending.good + limiter.pending.bad < MaxPending
       /\ limiter' =
             [answer.limiter EXCEPT
                 !.pending[kind] = IF answer.allowed THEN @ + 1 ELSE @,
                 !.admitted = IF answer.allowed THEN Noted(Within(@, t), t) ELSE Within(@, t),
                 !.since = IF answer.allowed THEN Noted(Within(@, t), t) ELSE Within(@, t),
                 !.hit = IF answer.limit_hit THEN Some(t) ELSE @,
                 !.lifted = IF answer.limit_hit THEN FALSE ELSE @]
       /\ last' = [kind |-> "login", at |-> t, allowed |-> answer.allowed,
                   retry_after |-> answer.retry_after,
                   status |-> IF answer.allowed THEN 0 ELSE 429]
       /\ LimiterFrame

\* login after its database query: 401 for bad credentials (403 for a
\* disabled account, which leaves the limiter alone as well), otherwise the
\* limiter is cleared and the token returned.
LoginAnswer(good) ==
    LET kind == IF good THEN "good" ELSE "bad"
    IN /\ limiter.pending[kind] > 0
       /\ limiter' = IF good THEN [clear(limiter) EXCEPT !.pending[kind] = @ - 1,
                                                          !.since = <<>>,
                                                          !.lifted = (limiter.hit # None)]
                             ELSE [limiter EXCEPT !.pending[kind] = @ - 1]
       /\ last' = [kind |-> "login_answer", at |-> limiter.clock,
                   status |-> IF good THEN 200 ELSE 401]
       /\ LimiterFrame

BlockOver(hit, t) == hit # None /\ t >= hit.value + LOGIN_RATE_LIMIT_BLOCK_SECONDS

LimiterClock(d) ==
    LET t == limiter.clock + d
    IN /\ t <= MaxClock
       /\ limiter' = [limiter EXCEPT
                         !.clock = t,
                         !.admitted = Within(@, t),
                         !.since = Within(@, t),
                         !.hit = IF BlockOver(limiter.hit, t) THEN None ELSE @,
                         !.lifted = IF BlockOver(limiter.hit, t) THEN FALSE ELSE @]
       /\ last' = [kind |-> "clock", at |-> t]
       /\ LimiterFrame

Attempt == \E good \in BOOLEAN : LoginAttempt(good)

Login == \E good \in BOOLEAN : LoginAnswer(good)

Clock == \E d \in ClockSteps : LimiterClock(d)

NextLogin == Attempt \/ Login \/ Clock

SpecLogin == InitTick /\ [][NextLogin]_vars

Admitted == last.kind = "login" /\ last.allowed

\* C40: for one identifier the limiter admits at most max_requests attempts
\* within any window of window_seconds, and once the limit is hit it
\* rejects every attempt from that identifier for the following
\* block_seconds, under any interleaving of concurrent attempts.
C40_Limited ==
    /\ Len(limiter.admitted) <= LOGIN_RATE_LIMIT_MAX_ATTEMPTS
    /\ Admitted => limiter.hit = None

\* C40, amended: counting from the identifier's last successful login, the
\* limiter admits at most max_requests attempts within any window of
\* window_seconds; once the limit is hit it rejects every attempt from that
\* identifier for the following block_seconds, unless a login from that
\* identifier succeeds meanwhile and clears the limiter.
C40_LimitedSinceClear ==
    /\ Len(limiter.since) <= LOGIN_RATE_LIMIT_MAX_ATTEMPTS
    /\ (Admitted /\ limiter.hit # None) => limiter.lifted

\* An attempt is refused later than the one that hit the limit, within
\* block_seconds of it, after max_requests attempts were admitted and none
\* of them has succeeded.
C40_Witness ==
    /\ last.kind = "login" /\ ~last.allowed
    /\ limiter.hit # None /\ last.at > limiter.hit.value
    /\ ~limiter.lifted

\* An attempt was admitted while the block it should fall under was running.
C40_AdmittedInsideBlock == Admitted /\ limiter.hit # None

\* More than max_requests attempts were admitted within one window.
C40_WindowExceeded == Len(limiter.admitted) > LOGIN_RATE_LIMIT_MAX_ATTEMPTS
====
